---- MODULE Spec2Model ----
(***************************************************************************)
(* Model of the in-memory energy platform server of mock-server.ts: the    *)
(* reading store with its per-device retention, the reading generator, the *)
(* four subscription registries of the WebSocket server and the dispatch   *)
(* of events to subscribed sockets.                                        *)
(*                                                                         *)
(* Conventions.                                                            *)
(*  - Node runs every handler and every timer callback to completion on    *)
(*    one thread, so each handler is one action.                           *)
(*  - A JavaScript string is a tuple of string tokens; a device id         *)
(*    "EAGLE-200-12345" is <<"EAGLE-200-","1","2","3","4","5">>, so that   *)
(*    the regular expression of validateDeviceId is computed, not assumed. *)
(*  - kWh values are integers in thousandths of a kWh, volts in tenths of  *)
(*    a volt, timestamps are integer clock readings (Date.getTime()).      *)
(*  - Math.random() is the rational r / RandDenom with r in 0..RandDenom-1.*)
(*  - delivered, produced, kafkaSent, response and lastOp describe what    *)
(*    the last handler did (they are rewritten by every action).           *)
(***************************************************************************)
EXTENDS Integers, Sequences, FiniteSets, TLC

(* ----------------------------- bounds ---------------------------------- *)

\* Retention cap of the store. mock-server.ts:80 sets 100; the model scales
\* it down so that every eviction case is reached exhaustively.
MAX_READINGS_PER_DEVICE == 2

\* Readings beyond the cap a batch may leave for one device id.
MaxOverflow == 1

\* Number of ids generateId hands out in one run.
MaxId == 5

\* Largest clock value.
MaxClock == 1

\* Pending setTimeout callbacks at one time.
MaxTimers == 1

\* POSTs that await the sink at one time.
MaxInflight == 1

\* Resolution of Math.random(): the values r / RandDenom, 0 <= r < RandDenom.
RandDenom == 2000

(* ----------------------------- strings --------------------------------- *)

Digit == {"0", "1", "2", "3", "4", "5", "6", "7", "8", "9"}

EAGLE(d1, d2, d3, d4, d5) == <<"EAGLE-200-", d1, d2, d3, d4, d5>>

GRID_ID    == EAGLE("1", "2", "3", "4", "5")
SOLAR_ID   == EAGLE("6", "7", "8", "9", "0")
WIND_ID    == EAGLE("1", "1", "1", "1", "1")
BATTERY_ID == EAGLE("2", "2", "2", "2", "2")

\* A well-formed id of no device, and two malformed ids.
UNKNOWN_ID   == EAGLE("9", "9", "9", "9", "9")
SHORT_ID     == <<"EAGLE-200-", "1", "2", "3", "4">>
MALFORMED_ID == <<"INVALID-", "1", "2", "3", "4", "5">>

\* socket.io ids of the connections, and a room name.
SocketIds == {<<"sock-1">>, <<"sock-2">>}
LOBBY     == <<"building-a">>
ANNEX     == <<"building-b">>

\* A test that looks at the prefix only
validateDeviceId_PrefixOnly(deviceId) ==
    /\ Len(deviceId) >= 1
    /\ deviceId[1] = "EAGLE-200-"

\* /^EAGLE-200-\d{5}$/.test(deviceId)
validateDeviceId(deviceId) ==
    /\ Len(deviceId) = 6
    /\ deviceId[1] = "EAGLE-200-"
    /\ \A i \in 2..6 : deviceId[i] \in Digit

(* ----------------------------- catalog --------------------------------- *)

InitialDevices ==
    << [id |-> GRID_ID, name |-> "Device 1", status |-> "active",
        type |-> "grid", location |-> "Building A - Main Entrance",
        utilityId |-> "UTIL-001"],
       [id |-> SOLAR_ID, name |-> "Solar Panel Array", status |-> "active",
        type |-> "solar", location |-> "Building A - Rooftop",
        utilityId |-> "UTIL-001"],
       [id |-> WIND_ID, name |-> "Device 2", status |-> "inactive",
        type |-> "wind", location |-> "Building B - West Wing",
        utilityId |-> "UTIL-002"],
       [id |-> BATTERY_ID, name |-> "Battery Storage Unit",
        status |-> "maintenance", type |-> "battery",
        location |-> "Building C - Basement", utilityId |-> "UTIL-003"] >>

DeviceIds == {InitialDevices[i].id : i \in 1..Len(InitialDevices)}

VARIABLES
    devices,              \* the catalog (array of Device)
    readings,             \* the store (array of EnergyReading)
    deviceSubscriptions,  \* Map deviceId -> Set of socket ids
    statusSubscriptions,  \* Set of socket ids
    alertSubscriptions,   \* Map deviceId -> Set of socket ids
    roomSubscriptions,    \* Map room -> Set of socket ids
    sockets,              \* socket id -> "idle" | "connected" | "disconnected",
                          \* or "stale": the peer is gone and the server has
                          \* not noticed yet
    socketRooms,          \* socket id -> the socket.io rooms the socket is in
    timers,               \* pending setTimeout callbacks, in firing order
    now,                  \* Date.now()
    nextId,               \* number of ids generateId has handed out
    kafkaProducer,        \* "null" | "connected" | "disconnected"
    delivered,            \* socket id -> events it received in the last step
    produced,             \* readings pushed by the last step, in push order
    kafkaSent,            \* messages handed to the sink in the last step
    response,             \* HTTP response of the last step
    lastOp,               \* the handler that ran last, with its arguments
    subscribeHistory,     \* <<socket, deviceId>> -> what the socket sent last
                          \* on the topic: "subscribed", "subscribed-again"
                          \* (a repeated subscribe) or "unsubscribed";
                          \* <<socket, RoomKey(room)>> -> "joined" once it
                          \* has joined the room
    alive,                \* FALSE once the process has ended
    inflight,             \* readings of POSTs that await kafkaProducer.send
    stopping              \* TRUE once shutdown() has been called

vars == <<devices, readings, deviceSubscriptions, statusSubscriptions,
          alertSubscriptions, roomSubscriptions, sockets, socketRooms, timers,
          now, nextId, kafkaProducer, delivered, produced, kafkaSent,
          response, lastOp, subscribeHistory, alive, inflight, stopping>>

(* ----------------------------- helpers --------------------------------- *)

Range(s) == {s[i] : i \in 1..Len(s)}

\* readings.filter((r) => r.deviceId === deviceId), over an array rs
RECURSIVE DeviceReadingsOf(_, _)
DeviceReadingsOf(rs, deviceId) ==
    IF rs = <<>> THEN <<>>
    ELSE IF Head(rs).deviceId = deviceId
         THEN <<Head(rs)>> \o DeviceReadingsOf(Tail(rs), deviceId)
         ELSE DeviceReadingsOf(Tail(rs), deviceId)

\* A lookup that returns the whole store
getDeviceReadings_WholeStore(deviceId) == readings

getDeviceReadings(deviceId) == DeviceReadingsOf(readings, deviceId)

\* Math.round(x) for the rational x = n / d, d > 0: floor(x + 1/2)
MathRound(n, d) == (2 * n + d) \div (2 * d)

\* Math.round(kwh * 100) / 100 for kwh in thousandths, in thousandths
Round2(milli) == 10 * MathRound(milli * 100, 1000)

(* ------------------------------ store ---------------------------------- *)

\* A timestamp that new Date(..) cannot convert to a primitive: a JSON object
\* whose own "toString" and "valueOf" are not functions. Every other
\* timestamp is a clock reading >= 0.
NotADate == -1

\* The comparator of the sort evaluates new Date(a.timestamp) on every
\* element of an array of two or more; it throws TypeError on NotADate.
SortThrows(s) ==
    Len(s) >= 2 /\ \E i \in 1..Len(s) : s[i].timestamp = NotADate

\* One step of the stable sort: r goes after every element that is not later.
RECURSIVE InsertByTimestamp(_, _)
InsertByTimestamp(sorted, r) ==
    IF sorted = <<>> THEN <<r>>
    ELSE IF Head(sorted).timestamp - r.timestamp <= 0
         THEN <<Head(sorted)>> \o InsertByTimestamp(Tail(sorted), r)
         ELSE <<r>> \o sorted

\* deviceReadings.sort((a, b) => getTime(a.timestamp) - getTime(b.timestamp))
\* (Array.prototype.sort is stable).
RECURSIVE SortByTimestamp(_)
SortByTimestamp(s) ==
    IF s = <<>> THEN <<>>
    ELSE InsertByTimestamp(SortByTimestamp(SubSeq(s, 1, Len(s) - 1)), s[Len(s)])

\* readings.findIndex((r) => r.id === id); 0 stands for -1
FindIndexById(rs, id) ==
    IF \E i \in 1..Len(rs) : rs[i].id = id
    THEN CHOOSE i \in 1..Len(rs) :
            /\ rs[i].id = id
            /\ \A j \in 1..(i - 1) : rs[j].id # id
    ELSE 0

\* readings.splice(index, 1)
Splice(rs, index) == SubSeq(rs, 1, index - 1) \o SubSeq(rs, index + 1, Len(rs))

\* oldestReadings.forEach: remove the first stored reading with the same id
RECURSIVE RemoveEach(_, _)
RemoveEach(rs, oldestReadings) ==
    IF oldestReadings = <<>> THEN rs
    ELSE LET index == FindIndexById(rs, Head(oldestReadings).id)
         IN  RemoveEach(IF index # 0 THEN Splice(rs, index) ELSE rs,
                        Tail(oldestReadings))

\* The readings cleanupOldReadings picks for removal from the array rs.
OldestReadings(rs, deviceId) ==
    LET deviceReadings == DeviceReadingsOf(rs, deviceId)
        toRemove == Len(deviceReadings) - MAX_READINGS_PER_DEVICE
    IN  IF Len(deviceReadings) > MAX_READINGS_PER_DEVICE
        THEN SubSeq(SortByTimestamp(deviceReadings), 1, toRemove)
        ELSE <<>>

\* cleanupOldReadings(deviceId) throws: it sorts only above the cap
cleanupThrows(rs, deviceId) ==
    LET deviceReadings == DeviceReadingsOf(rs, deviceId)
    IN  Len(deviceReadings) > MAX_READINGS_PER_DEVICE
           /\ SortThrows(deviceReadings)

\* A cleanup that drops the reading pushed last when the device is over
\* its cap
cleanupOldReadings_DropsPushed(rs, deviceId) ==
    IF Len(DeviceReadingsOf(rs, deviceId)) > MAX_READINGS_PER_DEVICE
    THEN SubSeq(rs, 1, Len(rs) - 1)
    ELSE rs

\* A cleanup that sorts the store itself and not a copy of the device's part
cleanupOldReadings_SortsStore(rs, deviceId) ==
    RemoveEach(SortByTimestamp(rs), OldestReadings(rs, deviceId))

\* cleanupOldReadings(deviceId), as a function of the array it works on,
\* when it does not throw
cleanupOldReadings(rs, deviceId) ==
    RemoveEach(rs, OldestReadings(rs, deviceId))

(* ---------------------------- generator -------------------------------- *)

\* generateId(): a fresh id; n ids have been handed out before
generateId(n) == n + 1

\* generateReading without the base load of 5 kWh of a consumer
generateReading_NoBaseLoad(device, hour, rKwh, rVolt, id, ts) ==
    [id          |-> id,
     deviceId    |-> device.id,
     timestamp   |-> ts,
     kwh         |-> 10 * MathRound(100 * (rKwh * 10), RandDenom),
     voltage     |-> MathRound(10 * (rVolt * 10 + 235 * RandDenom), RandDenom),
     readingType |-> IF device.type = "solar" THEN "generation"
                     ELSE "consumption"]

\* generateReading(device) at local hour `hour` and wall clock `ts`, the two
\* Math.random() draws being rKwh / RandDenom and rVolt / RandDenom.
generateReading(device, hour, rKwh, rVolt, id, ts) ==
    LET daytime == hour >= 6 /\ hour <= 18
        \* kwh * 100 as the rational num / RandDenom
        num == IF device.type = "solar"
               THEN IF daytime THEN -(100 * (rKwh * 5 + 2 * RandDenom)) ELSE 0
               ELSE 100 * (rKwh * 10 + 5 * RandDenom)
    IN  [id          |-> id,
         deviceId    |-> device.id,
         timestamp   |-> ts,
         kwh         |-> 10 * MathRound(num, RandDenom),
         voltage     |-> MathRound(10 * (rVolt * 10 + 235 * RandDenom), RandDenom),
         readingType |-> IF device.type = "solar" THEN "generation"
                         ELSE "consumption"]

(* ----------------------------- dispatch -------------------------------- *)

\* The sockets in a socket.io room that a packet written to the room
\* reaches. A socket enters the room named by its own id when it connects and
\* other rooms with socket.join; a write to a peer that is gone is dropped.
RoomMembers(room) ==
    {s \in SocketIds : sockets[s] = "connected" /\ room \in socketRooms[s]}

\* io.to(room).emit(ev) and socket.emit(ev), as values
IoTo(room, ev)       == [via |-> "io.to", to |-> room, ev |-> ev]
SocketEmit(s, ev)    == [via |-> "socket", to |-> s, ev |-> ev]

\* The sockets one emit reaches. A socket that has gone is skipped silently.
Targets(em) ==
    IF em.via = "io.to" THEN RoomMembers(em.to)
    ELSE IF sockets[em.to] = "connected" THEN {em.to} ELSE {}

\* What socket s receives from a sequence of emits, in emit order.
RECURSIVE Received(_, _)
Received(emits, s) ==
    IF emits = <<>> THEN <<>>
    ELSE IF s \in Targets(Head(emits))
         THEN <<Head(emits).ev>> \o Received(Tail(emits), s)
         ELSE Received(Tail(emits), s)

\* The emits up to the first one that is addressed to a peer that is gone
RECURSIVE UntilStale(_)
UntilStale(emits) ==
    IF emits = <<>> THEN <<>>
    ELSE IF Targets(Head(emits)) = {} THEN <<>>
         ELSE <<Head(emits)>> \o UntilStale(Tail(emits))

\* A dispatch that a write to a peer that is gone aborts
Deliver_StopsAtStale(emits) ==
    [s \in SocketIds |-> Received(UntilStale(emits), s)]

Deliver(emits) == [s \in SocketIds |-> Received(emits, s)]

NoDelivery == [s \in SocketIds |-> <<>>]

\* Set.prototype.forEach: the members of a Set, one after the other.
RECURSIVE SetToSeq(_)
SetToSeq(S) ==
    IF S = {} THEN <<>>
    ELSE LET x == CHOOSE y \in S : TRUE IN <<x>> \o SetToSeq(S \ {x})

\* Map.prototype.get: the Set stored under a key, or {} for undefined
MapGet(map, key) == IF key \in DOMAIN map THEN map[key] ELSE {}

\* The 'reading:update' payload of a reading
ReadingUpdate(reading) ==
    [name      |-> "reading:update",
     deviceId  |-> reading.deviceId,
     value     |-> reading.kwh,
     timestamp |-> reading.timestamp,
     voltage   |-> reading.voltage]

\* A fan-out that sends the device's oldest stored reading after the new one
EmitToSubscribers_ReplaysStored(subscribers, reading) ==
    LET ids == SetToSeq(subscribers)
        old == SelectSeq(readings, LAMBDA r : r.deviceId = reading.deviceId)
        evs == IF old = <<>> THEN << ReadingUpdate(reading) >>
               ELSE << ReadingUpdate(reading), ReadingUpdate(old[1]) >>
    IN  [i \in 1..(Len(ids) * Len(evs)) |->
            IoTo(ids[((i - 1) \div Len(evs)) + 1],
                 evs[((i - 1) % Len(evs)) + 1])]

\* subscribers.forEach((socketId) => io.to(socketId).emit("reading:update", ..))
EmitToSubscribers(subscribers, reading) ==
    LET ids == SetToSeq(subscribers)
    IN  [i \in 1..Len(ids) |-> IoTo(ids[i], ReadingUpdate(reading))]

\* A forwarder that sends again until the producer accepts the message
publishReadingToKafka_SendsAgain(reading, sendOk) ==
    IF kafkaProducer = "null" THEN <<>>
    ELSE << [key |-> reading.deviceId,
             value |-> [deviceId    |-> reading.deviceId,
                        value       |-> reading.kwh,
                        id          |-> reading.id,
                        timestamp   |-> reading.timestamp,
                        voltage     |-> reading.voltage,
                        readingType |-> reading.readingType]] >>

\* A forwarder that hands every message to the producer twice
publishReadingToKafka_Twice(reading, sendOk) ==
    IF kafkaProducer = "null" THEN <<>>
    ELSE IF sendOk /\ kafkaProducer = "connected"
         THEN LET message ==
                    [key |-> reading.deviceId,
                     value |-> [deviceId    |-> reading.deviceId,
                                value       |-> reading.kwh,
                                id          |-> reading.id,
                                timestamp   |-> reading.timestamp,
                                voltage     |-> reading.voltage,
                                readingType |-> reading.readingType]]
              IN  << message, message >>
         ELSE <<>>

\* publishReadingToKafka(reading): the messages the producer accepts.
\* sendOk tells whether kafkaProducer.send resolves or rejects; it rejects
\* on a producer that shutdown() has disconnected.
publishReadingToKafka(reading, sendOk) ==
    IF kafkaProducer = "null" THEN <<>>
    ELSE IF sendOk /\ kafkaProducer = "connected"
         THEN << [key |-> reading.deviceId,
                  value |-> [deviceId    |-> reading.deviceId,
                             value       |-> reading.kwh,
                             id          |-> reading.id,
                             timestamp   |-> reading.timestamp,
                             voltage     |-> reading.voltage,
                             readingType |-> reading.readingType]] >>
         ELSE <<>>

NoSocket == <<>>
NoKey    == <<>>
NoResponse == [status |-> 0]

Op(name, socket) == [name |-> name, socket |-> socket]

(* ------------------------------- Init ---------------------------------- *)

EmptyMap == [k \in {} |-> {}]

Init ==
    /\ devices = InitialDevices
    /\ readings = <<>>
    /\ deviceSubscriptions = EmptyMap
    /\ statusSubscriptions = {}
    /\ alertSubscriptions = EmptyMap
    /\ roomSubscriptions = EmptyMap
    /\ sockets = [s \in SocketIds |-> "idle"]
    /\ socketRooms = [s \in SocketIds |-> {}]
    /\ timers = <<>>
    /\ now = 0
    /\ nextId = 0
    /\ kafkaProducer = "null"
    /\ delivered = NoDelivery
    /\ produced = <<>>
    /\ kafkaSent = <<>>
    /\ response = NoResponse
    /\ lastOp = Op("start", NoSocket)
    /\ subscribeHistory = [p \in {} |-> ""]
    /\ alive = TRUE
    /\ inflight = <<>>
    /\ stopping = FALSE

(* --------------------------- WebSocket server --------------------------- *)

storeVars    == <<devices, readings, nextId>>
registryVars == <<deviceSubscriptions, statusSubscriptions,
                  alertSubscriptions, roomSubscriptions>>

\* A registration that stores a new Set with the one socket
MapAdd_Overwrites(map, key, s) ==
    [k \in DOMAIN map \cup {key} |-> IF k = key THEN {s} ELSE map[k]]

\* Map.set(key, new Set()) when absent, then Set.add(s)
MapAdd(map, key, s) ==
    [k \in DOMAIN map \cup {key} |-> IF k = key THEN MapGet(map, key) \cup {s}
                                      ELSE map[k]]

\* A removal that makes the Set when there is none
MapDelete_CreatesTopic(map, key, s) ==
    [k \in DOMAIN map \cup {key} |-> MapGet(map, k) \ {s}]

\* A removal that takes s out of the Set of every key
MapDelete_FromAll(map, key, s) == [k \in DOMAIN map |-> map[k] \ {s}]

\* Set.delete(s) on the Set under key, when there is one
MapDelete(map, key, s) ==
    [k \in DOMAIN map |-> IF k = key THEN map[k] \ {s} ELSE map[k]]

\* map.forEach((subscribers) => subscribers.delete(s))
MapDeleteAll(map, s) == [k \in DOMAIN map |-> map[k] \ {s}]

\* setTimeout(() => socket.emit(name, ..), 100)
Timer(s, name, key) == [socket |-> s, name |-> name, key |-> key]

\* The last message of socket s on the reading topic of deviceId
HistoryOf(s, deviceId) ==
    IF <<s, deviceId>> \in DOMAIN subscribeHistory
    THEN subscribeHistory[<<s, deviceId>>] ELSE "never"

\* The key of a room in subscribeHistory: rooms and devices are two name
\* spaces, and a room may be named like a device
RoomKey(room) == <<"room">> \o room

SetHistory(pair, what) ==
    [p \in DOMAIN subscribeHistory \cup {pair} |->
        IF p = pair THEN what ELSE subscribeHistory[p]]

\* A connection handler that puts every new socket into the status topic
Connection_SubscribesStatus(s) ==
    /\ alive
    /\ ~stopping
    /\ sockets[s] = "idle"
    /\ sockets' = [sockets EXCEPT ![s] = "connected"]
    /\ socketRooms' = [socketRooms EXCEPT ![s] = {s}]
    /\ statusSubscriptions' = statusSubscriptions \cup {s}
    /\ delivered' = NoDelivery
    /\ produced' = <<>>
    /\ kafkaSent' = <<>>
    /\ response' = NoResponse
    /\ lastOp' = Op("connection", s)
    /\ UNCHANGED <<storeVars, deviceSubscriptions, alertSubscriptions,
                   roomSubscriptions, timers, now, kafkaProducer, inflight,
                   stopping, alive, subscribeHistory>>

\* io.on("connection")
Connection(s) ==
    /\ alive
    /\ ~stopping
    /\ sockets[s] = "idle"
    /\ sockets' = [sockets EXCEPT ![s] = "connected"]
    /\ socketRooms' = [socketRooms EXCEPT ![s] = {s}]
    /\ delivered' = NoDelivery
    /\ produced' = <<>>
    /\ kafkaSent' = <<>>
    /\ response' = NoResponse
    /\ lastOp' = Op("connection", s)
    /\ UNCHANGED <<storeVars, registryVars, timers, now,
                   kafkaProducer, inflight, stopping, alive, subscribeHistory>>

\* socket.on("subscribe")
Subscribe(s, deviceId) ==
    /\ alive
    /\ sockets[s] = "connected"
    /\ Len(timers) < MaxTimers
    /\ deviceSubscriptions' = MapAdd(deviceSubscriptions, deviceId, s)
    /\ timers' = Append(timers, Timer(s, "reading:update", deviceId))
    /\ delivered' = NoDelivery
    /\ produced' = <<>>
    /\ kafkaSent' = <<>>
    /\ response' = NoResponse
    /\ lastOp' = Op("subscribe", s)
    /\ subscribeHistory' =
         SetHistory(<<s, deviceId>>,
                    IF HistoryOf(s, deviceId) \in {"subscribed",
                                                   "subscribed-again"}
                    THEN "subscribed-again" ELSE "subscribed")
    /\ UNCHANGED <<storeVars, statusSubscriptions, alertSubscriptions,
                   roomSubscriptions, sockets, socketRooms, now, kafkaProducer, inflight, stopping, alive>>

\* An unsubscribe that takes the socket out of the alert topic of the
\* device as well
Unsubscribe_AlsoAlerts(s, deviceId) ==
    /\ alive
    /\ sockets[s] = "connected"
    /\ deviceSubscriptions' = MapDelete(deviceSubscriptions, deviceId, s)
    /\ alertSubscriptions' = MapDelete(alertSubscriptions, deviceId, s)
    /\ delivered' = Deliver(<< SocketEmit(s, [name |-> "unsubscribed",
                                              deviceId |-> deviceId]) >>)
    /\ produced' = <<>>
    /\ kafkaSent' = <<>>
    /\ response' = NoResponse
    /\ lastOp' = Op("unsubscribe", s)
    /\ subscribeHistory' = SetHistory(<<s, deviceId>>, "unsubscribed")
    /\ UNCHANGED <<storeVars, statusSubscriptions, roomSubscriptions, sockets,
                   socketRooms, timers, now, kafkaProducer, inflight,
                   stopping, alive>>

\* socket.on("unsubscribe")
Unsubscribe(s, deviceId) ==
    /\ alive
    /\ sockets[s] = "connected"
    /\ deviceSubscriptions' = MapDelete(deviceSubscriptions, deviceId, s)
    /\ delivered' = Deliver(<< SocketEmit(s, [name |-> "unsubscribed",
                                              deviceId |-> deviceId]) >>)
    /\ produced' = <<>>
    /\ kafkaSent' = <<>>
    /\ response' = NoResponse
    /\ lastOp' = Op("unsubscribe", s)
    /\ subscribeHistory' = SetHistory(<<s, deviceId>>, "unsubscribed")
    /\ UNCHANGED <<storeVars, statusSubscriptions, alertSubscriptions,
                   roomSubscriptions, sockets, socketRooms, timers, now,
                   kafkaProducer, inflight, stopping, alive>>

\* The status a device of the catalog has, "" when there is none
StatusOf(deviceId) ==
    IF \E i \in 1..Len(devices) : devices[i].id = deviceId
    THEN devices[CHOOSE i \in 1..Len(devices) : devices[i].id = deviceId].status
    ELSE ""

\* The callback of subscribe:status closes over the device object it found:
\* `status` is the status of that object, `live` tells whether the object is
\* still the one in the catalog (a PUT or updateDevice puts a new object
\* there, device:update-status changes the object in place).
StatusTimer(s, deviceId) ==
    [socket |-> s, name |-> "status:update", key |-> deviceId,
     status |-> StatusOf(deviceId), live |-> TRUE]

\* socket.on("subscribe:status")
SubscribeStatus(s, deviceId) ==
    /\ alive
    /\ sockets[s] = "connected"
    /\ Len(timers) < MaxTimers
    /\ statusSubscriptions' = statusSubscriptions \cup {s}
    /\ timers' = IF \E i \in 1..Len(devices) : devices[i].id = deviceId
                 THEN Append(timers, StatusTimer(s, deviceId))
                 ELSE timers
    /\ delivered' = NoDelivery
    /\ produced' = <<>>
    /\ kafkaSent' = <<>>
    /\ response' = NoResponse
    /\ lastOp' = Op("subscribe:status", s)
    /\ UNCHANGED <<storeVars, deviceSubscriptions, alertSubscriptions,
                   roomSubscriptions, sockets, socketRooms, now, kafkaProducer, inflight, stopping, alive, subscribeHistory>>

\* socket.on("subscribe:alerts")
SubscribeAlerts(s, deviceId) ==
    /\ alive
    /\ sockets[s] = "connected"
    /\ Len(timers) < MaxTimers
    /\ alertSubscriptions' = MapAdd(alertSubscriptions, deviceId, s)
    /\ timers' = Append(timers, Timer(s, "alert:reading", deviceId))
    /\ delivered' = NoDelivery
    /\ produced' = <<>>
    /\ kafkaSent' = <<>>
    /\ response' = NoResponse
    /\ lastOp' = Op("subscribe:alerts", s)
    /\ UNCHANGED <<storeVars, deviceSubscriptions, statusSubscriptions,
                   roomSubscriptions, sockets, socketRooms, now, kafkaProducer, inflight, stopping, alive, subscribeHistory>>

\* socket.on("join:room")
JoinRoom(s, room) ==
    /\ alive
    /\ sockets[s] = "connected"
    /\ Len(timers) < MaxTimers
    /\ socketRooms' = [socketRooms EXCEPT ![s] = @ \cup {room}]
    /\ roomSubscriptions' = MapAdd(roomSubscriptions, room, s)
    /\ timers' = Append(timers, Timer(s, "room:update", room))
    /\ delivered' = NoDelivery
    /\ produced' = <<>>
    /\ kafkaSent' = <<>>
    /\ response' = NoResponse
    /\ lastOp' = Op("join:room", s)
    /\ subscribeHistory' = SetHistory(<<s, RoomKey(room)>>, "joined")
    /\ UNCHANGED <<storeVars, deviceSubscriptions, statusSubscriptions,
                   alertSubscriptions, sockets, now, kafkaProducer, inflight,
                   stopping, alive>>

\* A leave:room that also deletes the socket from the reading topic of the
\* device that has the name of the room
LeaveRoom_AlsoUnsubscribes(s, room) ==
    /\ alive
    /\ sockets[s] = "connected"
    /\ socketRooms' = [socketRooms EXCEPT ![s] = @ \ {room}]
    /\ roomSubscriptions' = MapDelete(roomSubscriptions, room, s)
    /\ deviceSubscriptions' = MapDelete(deviceSubscriptions, room, s)
    /\ delivered' = NoDelivery
    /\ produced' = <<>>
    /\ kafkaSent' = <<>>
    /\ response' = NoResponse
    /\ lastOp' = Op("leave:room", s)
    /\ UNCHANGED <<storeVars, statusSubscriptions, alertSubscriptions,
                   sockets, timers, now, kafkaProducer, inflight, stopping,
                   alive, subscribeHistory>>

\* socket.on("leave:room")
LeaveRoom(s, room) ==
    /\ alive
    /\ sockets[s] = "connected"
    /\ socketRooms' = [socketRooms EXCEPT ![s] = @ \ {room}]
    /\ roomSubscriptions' = MapDelete(roomSubscriptions, room, s)
    /\ delivered' = NoDelivery
    /\ produced' = <<>>
    /\ kafkaSent' = <<>>
    /\ response' = NoResponse
    /\ lastOp' = Op("leave:room", s)
    /\ UNCHANGED <<storeVars, deviceSubscriptions, statusSubscriptions,
                   alertSubscriptions, sockets, timers, now, kafkaProducer, inflight, stopping, alive, subscribeHistory>>

\* A disconnect handler that forgets the alert registry
RemoveEverywhere_ForgetsAlerts(reg, s) ==
    [deviceSubscriptions |-> MapDeleteAll(reg.deviceSubscriptions, s),
     statusSubscriptions |-> reg.statusSubscriptions \ {s},
     alertSubscriptions  |-> reg.alertSubscriptions,
     roomSubscriptions   |-> MapDeleteAll(reg.roomSubscriptions, s)]

\* The body of the 'disconnect' handler: the four registries without s.
RemoveEverywhere(reg, s) ==
    [deviceSubscriptions |-> MapDeleteAll(reg.deviceSubscriptions, s),
     statusSubscriptions |-> reg.statusSubscriptions \ {s},
     alertSubscriptions  |-> MapDeleteAll(reg.alertSubscriptions, s),
     roomSubscriptions   |-> MapDeleteAll(reg.roomSubscriptions, s)]

Registries ==
    [deviceSubscriptions |-> deviceSubscriptions,
     statusSubscriptions |-> statusSubscriptions,
     alertSubscriptions  |-> alertSubscriptions,
     roomSubscriptions   |-> roomSubscriptions]

\* The peer of socket s is gone and the server has not seen the close yet:
\* s is still in the registries and in its rooms, writes to it are dropped.
PeerVanishes(s) ==
    /\ alive
    /\ sockets[s] = "connected"
    /\ sockets' = [sockets EXCEPT ![s] = "stale"]
    /\ delivered' = NoDelivery
    /\ produced' = <<>>
    /\ kafkaSent' = <<>>
    /\ response' = NoResponse
    /\ lastOp' = Op("peer gone", s)
    /\ UNCHANGED <<storeVars, registryVars, socketRooms, timers, now,
                   kafkaProducer, inflight, stopping, alive,
                   subscribeHistory>>

\* socket.on("disconnect"): socket.io has taken the socket out of its rooms
Disconnect(s) ==
    /\ alive
    /\ sockets[s] \in {"connected", "stale"}
    /\ sockets' = [sockets EXCEPT ![s] = "disconnected"]
    /\ socketRooms' = [socketRooms EXCEPT ![s] = {}]
    /\ LET after == RemoveEverywhere(Registries, s)
       IN  /\ deviceSubscriptions' = after.deviceSubscriptions
           /\ statusSubscriptions' = after.statusSubscriptions
           /\ alertSubscriptions' = after.alertSubscriptions
           /\ roomSubscriptions' = after.roomSubscriptions
    /\ delivered' = NoDelivery
    /\ produced' = <<>>
    /\ kafkaSent' = <<>>
    /\ response' = NoResponse
    /\ lastOp' = Op("disconnect", s)
    /\ UNCHANGED <<storeVars, timers, now, kafkaProducer, inflight, stopping, alive, subscribeHistory>>

\* socket.on("reading:new"): the client's object is stored as it came
ReadingNew(s, reading) ==
    /\ alive
    /\ sockets[s] = "connected"
    /\ LET pushed == Append(readings, reading)
           threw  == cleanupThrows(pushed, reading.deviceId)
           others == IF reading.deviceId \in DOMAIN deviceSubscriptions
                     THEN deviceSubscriptions[reading.deviceId] \ {s}
                     ELSE {}
       IN  \* an exception in the handler is uncaught: the process exits
           /\ readings' = IF threw THEN pushed
                          ELSE cleanupOldReadings(pushed, reading.deviceId)
           /\ delivered' = IF threw THEN NoDelivery
                           ELSE Deliver(EmitToSubscribers(others, reading))
           /\ alive' = ~threw
    /\ produced' = <<reading>>
    /\ kafkaSent' = <<>>
    /\ response' = NoResponse
    /\ lastOp' = Op("reading:new", s)
    /\ UNCHANGED <<devices, nextId, registryVars, sockets, socketRooms,
                   timers, now, kafkaProducer, inflight, stopping, subscribeHistory>>

\* A callback that emits the device test reading whatever was subscribed
TimerEvent_AlwaysReading(t, rnd) ==
    [name |-> "reading:update", deviceId |-> t.key,
     value |-> (100000 * rnd) \div RandDenom, timestamp |-> now,
     voltage |-> 2400]

\* The event a pending setTimeout callback emits with socket.emit.
\* rnd / RandDenom is the Math.random() of the test reading.
TimerEvent(t, rnd) ==
    IF t.name = "reading:update"
    THEN [name |-> "reading:update", deviceId |-> t.key,
          value |-> (100000 * rnd) \div RandDenom, timestamp |-> now,
          voltage |-> 2400]
    ELSE IF t.name = "status:update"
    THEN [name |-> "status:update", deviceId |-> t.key,
          status |-> t.status, timestamp |-> now]
    ELSE IF t.name = "alert:reading"
    THEN [name |-> "alert:reading", deviceId |-> t.key, type |-> "abnormal",
          severity |-> "warning", timestamp |-> now]
    ELSE [name |-> "room:update", room |-> t.key,
          deviceId |-> <<"test-device">>, timestamp |-> now]

\* The callback of the oldest pending setTimeout runs (all have 100 ms).
TimerFire(rnd) ==
    /\ alive
    /\ timers # <<>>
    /\ timers' = Tail(timers)
    /\ delivered' = Deliver(<< SocketEmit(Head(timers).socket,
                                          TimerEvent(Head(timers), rnd)) >>)
    /\ produced' = <<>>
    /\ kafkaSent' = <<>>
    /\ response' = NoResponse
    /\ lastOp' = Op("timeout", Head(timers).socket)
    /\ UNCHANGED <<storeVars, registryVars, sockets, socketRooms, now,
                   kafkaProducer, inflight, stopping, alive, subscribeHistory>>

(* ------------------------------ generator ------------------------------ *)

\* A generator that makes a reading only for a device somebody watches
RECURSIVE SimulateFrom_OnlyWatched(_, _, _, _, _, _)
SimulateFrom_OnlyWatched(i, rs, n, hour, rKwh, rVolt) ==
    IF i > Len(devices)
    THEN [readings |-> rs, emits |-> <<>>, produced |-> <<>>, threw |-> NoKey]
    ELSE LET device  == devices[i]
             reading == generateReading(device, hour, rKwh[i], rVolt[i],
                                        generateId(n), now)
             subscribers == MapGet(deviceSubscriptions, device.id)
             watched == Cardinality(subscribers) > 0
             pushed  == IF watched
                        THEN cleanupOldReadings(Append(rs, reading), device.id)
                        ELSE rs
             rest    == SimulateFrom_OnlyWatched(i + 1, pushed, n + 1, hour,
                                                 rKwh, rVolt)
         IN  [readings |-> rest.readings,
              emits    |-> (IF watched
                            THEN EmitToSubscribers(subscribers, reading)
                            ELSE <<>>) \o rest.emits,
              produced |-> (IF watched THEN <<reading>> ELSE <<>>)
                              \o rest.produced,
              threw    |-> rest.threw]

\* devices.forEach of simulateRealTimeReadings from device i on: the array,
\* the emits and the pushed readings it leaves behind, and the device whose
\* cleanup threw (NoKey when none did). The callback has no try/catch: an
\* exception leaves forEach at once. n ids were handed out.
RECURSIVE SimulateFrom(_, _, _, _, _, _)
SimulateFrom(i, rs, n, hour, rKwh, rVolt) ==
    IF i > Len(devices)
    THEN [readings |-> rs, emits |-> <<>>, produced |-> <<>>, threw |-> NoKey]
    ELSE LET device  == devices[i]
             reading == generateReading(device, hour, rKwh[i], rVolt[i],
                                        generateId(n), now)
             appended == Append(rs, reading)
         IN  IF cleanupThrows(appended, device.id)
             THEN [readings |-> appended, emits |-> <<>>,
                   produced |-> <<reading>>, threw |-> device.id]
             ELSE
             LET pushed  == cleanupOldReadings(appended, device.id)
                 subscribers == MapGet(deviceSubscriptions, device.id)
                 emits   == IF device.id \in DOMAIN deviceSubscriptions
                               /\ Cardinality(subscribers) > 0
                            THEN EmitToSubscribers(subscribers, reading)
                            ELSE <<>>
                 rest    == SimulateFrom(i + 1, pushed, n + 1, hour, rKwh,
                                         rVolt)
             IN  [readings |-> rest.readings,
                  emits    |-> emits \o rest.emits,
                  produced |-> <<reading>> \o rest.produced,
                  threw    |-> rest.threw]

\* One run of simulateRealTimeReadings (the setInterval callback). An
\* exception that leaves the callback is uncaught (the server installs no
\* 'uncaughtException' handler): the process exits and its timers with it.
simulateRealTimeReadings(hour, rKwh, rVolt) ==
    /\ alive
    /\ nextId + Len(devices) <= MaxId
    /\ LET run == SimulateFrom(1, readings, nextId, hour, rKwh, rVolt)
       IN  /\ readings' = run.readings
           /\ delivered' = Deliver(run.emits)
           /\ produced' = run.produced
           /\ nextId' = nextId + Len(run.produced)
           /\ alive' = (run.threw = NoKey)
           /\ lastOp' = [name |-> "tick", socket |-> NoSocket,
                         hour |-> hour, threw |-> run.threw]
    /\ kafkaSent' = <<>>
    /\ response' = NoResponse
    /\ UNCHANGED <<devices, registryVars, sockets, socketRooms, timers, now,
                   kafkaProducer, inflight, stopping, subscribeHistory>>

(* ------------------------------- sink ---------------------------------- *)

\* initKafka() at startup, with KAFKA_BROKER set: the producer connects, or
\* the broker is not available and the server goes on without a producer.
initKafka(connectOk) ==
    /\ alive
    /\ lastOp = Op("start", NoSocket)
    /\ kafkaProducer' = IF connectOk THEN "connected" ELSE "null"
    /\ delivered' = NoDelivery
    /\ produced' = <<>>
    /\ kafkaSent' = <<>>
    /\ response' = NoResponse
    /\ lastOp' = [name |-> "initKafka", socket |-> NoSocket,
                  connectOk |-> connectOk]
    /\ UNCHANGED <<storeVars, registryVars, sockets, socketRooms, timers, now,
                   subscribeHistory, alive, inflight, stopping>>

\* shutdown(), called by the SIGTERM and SIGINT handlers: the producer is
\* disconnected (an error of disconnect() is logged) and httpServer.close()
\* stops the server from accepting connections. Nothing else is stopped.
Shutdown(disconnectOk) ==
    /\ alive
    /\ stopping' = TRUE
    /\ kafkaProducer' = IF kafkaProducer = "connected" /\ disconnectOk
                        THEN "disconnected" ELSE kafkaProducer
    /\ delivered' = NoDelivery
    /\ produced' = <<>>
    /\ kafkaSent' = <<>>
    /\ response' = NoResponse
    /\ lastOp' = [name |-> "shutdown", socket |-> NoSocket,
                  disconnectOk |-> disconnectOk]
    /\ UNCHANGED <<storeVars, registryVars, sockets, socketRooms, timers, now,
                   subscribeHistory, alive, inflight>>

\* The callback of httpServer.close(): every connection has ended, and
\* process.exit(0) ends the process.
Exit ==
    /\ alive
    /\ stopping
    /\ \A s \in SocketIds : sockets[s] \notin {"connected", "stale"}
    /\ alive' = FALSE
    /\ delivered' = NoDelivery
    /\ produced' = <<>>
    /\ kafkaSent' = <<>>
    /\ response' = NoResponse
    /\ lastOp' = Op("exit", NoSocket)
    /\ UNCHANGED <<storeVars, registryVars, sockets, socketRooms, timers, now,
                   subscribeHistory, kafkaProducer, inflight, stopping>>

(* ------------------------------- REST ---------------------------------- *)

Rejected(status) ==
    /\ response' = [status |-> status]
    /\ delivered' = NoDelivery
    /\ produced' = <<>>
    /\ kafkaSent' = <<>>
    /\ UNCHANGED <<storeVars, registryVars, sockets, socketRooms, timers, now,
                   kafkaProducer, inflight, stopping, alive, subscribeHistory>>

\* app.post("/api/readings"). A body has deviceId (<<>> when absent), hasKwh,
\* kwh, voltage (0 when absent) and readingType ("undefined" when absent).
PostReading(body, sendOk) ==
    /\ alive
    /\ nextId < MaxId
    /\ lastOp' = [name |-> "POST /api/readings", socket |-> NoSocket,
                  body |-> body, sendOk |-> sendOk]
    /\ IF body.deviceId = <<>> \/ ~validateDeviceId(body.deviceId)
       THEN Rejected(400)
       ELSE IF ~body.hasKwh
       THEN Rejected(400)
       ELSE IF body.readingType = "consumption" /\ body.kwh < 0
       THEN Rejected(400)
       ELSE IF ~\E i \in 1..Len(devices) : devices[i].id = body.deviceId
       THEN Rejected(404)
       ELSE LET reading ==
                  [id          |-> generateId(nextId),
                   deviceId    |-> body.deviceId,
                   timestamp   |-> now,
                   kwh         |-> Round2(body.kwh),
                   voltage     |-> IF body.voltage # 0 THEN body.voltage
                                   ELSE 2400,
                   readingType |-> IF body.readingType # "undefined"
                                   THEN body.readingType ELSE "consumption"]
                pushed == Append(readings, reading)
            IN  /\ nextId' = nextId + 1
                /\ produced' = <<reading>>
                /\ IF cleanupThrows(pushed, body.deviceId)
                   THEN \* the async handler rejects: Express 5 answers 500,
                        \* Express 4 leaves the rejection unhandled and the
                        \* process exits without an answer
                        /\ readings' = pushed
                        /\ delivered' = NoDelivery
                        /\ kafkaSent' = <<>>
                        /\ alive' \in BOOLEAN
                        /\ response' = IF alive' THEN [status |-> 500]
                                       ELSE NoResponse
                   ELSE /\ readings' = cleanupOldReadings(pushed,
                                                          body.deviceId)
                        /\ delivered' =
                             Deliver(EmitToSubscribers(
                                        MapGet(deviceSubscriptions,
                                               body.deviceId),
                                        reading))
                        /\ kafkaSent' = publishReadingToKafka(reading, sendOk)
                        /\ response' = [status |-> 201]
                        /\ alive' = alive
                /\ UNCHANGED <<devices, registryVars, sockets, socketRooms,
                               timers, now, kafkaProducer, inflight, stopping, subscribeHistory>>

\* The same handler from a request that passes the checks, while the
\* producer is connected, up to 'await publishReadingToKafka(reading)':
\* kafkaProducer.send is under way and the handler has not answered.
PostReadingAwait(body) ==
    /\ alive
    /\ nextId < MaxId
    /\ Len(inflight) < MaxInflight
    /\ kafkaProducer = "connected"
    /\ body.deviceId # <<>> /\ validateDeviceId(body.deviceId)
    /\ body.hasKwh
    /\ ~(body.readingType = "consumption" /\ body.kwh < 0)
    /\ \E i \in 1..Len(devices) : devices[i].id = body.deviceId
    /\ LET reading ==
              [id          |-> generateId(nextId),
               deviceId    |-> body.deviceId,
               timestamp   |-> now,
               kwh         |-> Round2(body.kwh),
               voltage     |-> IF body.voltage # 0 THEN body.voltage
                               ELSE 2400,
               readingType |-> IF body.readingType # "undefined"
                               THEN body.readingType ELSE "consumption"]
            pushed == Append(readings, reading)
       IN  /\ ~cleanupThrows(pushed, body.deviceId)
           /\ readings' = cleanupOldReadings(pushed, body.deviceId)
           /\ produced' = <<reading>>
           /\ delivered' = Deliver(EmitToSubscribers(
                                      MapGet(deviceSubscriptions,
                                             body.deviceId),
                                      reading))
           /\ inflight' = Append(inflight, reading)
    /\ nextId' = nextId + 1
    /\ kafkaSent' = <<>>
    /\ response' = NoResponse
    /\ lastOp' = [name |-> "POST /api/readings awaits send",
                  socket |-> NoSocket, body |-> body]
    /\ UNCHANGED <<devices, registryVars, sockets, socketRooms, timers, now,
                   kafkaProducer, stopping, alive, subscribeHistory>>

\* kafkaProducer.send of the oldest waiting POST resolves or rejects, and
\* the handler goes on to res.status(201).json(reading).
SendSettles(sendOk) ==
    /\ alive
    /\ inflight # <<>>
    /\ inflight' = Tail(inflight)
    /\ kafkaSent' = publishReadingToKafka(Head(inflight), sendOk)
    /\ response' = [status |-> 201]
    /\ delivered' = NoDelivery
    /\ produced' = <<>>
    /\ lastOp' = [name |-> "send settles", socket |-> NoSocket,
                  reading |-> Head(inflight), sendOk |-> sendOk]
    /\ UNCHANGED <<storeVars, registryVars, sockets, socketRooms, timers, now,
                   kafkaProducer, stopping, alive, subscribeHistory>>

\* The readings a batch creates: item i gets the i-th fresh id.
\* An item has deviceId, hasTimestamp, timestamp, kwh, voltage, readingType.
BatchCreated(batchReadings) ==
    [i \in 1..Len(batchReadings) |->
        LET reading == batchReadings[i]
        IN  [id          |-> generateId(nextId + i - 1),
             deviceId    |-> reading.deviceId,
             timestamp   |-> IF reading.hasTimestamp THEN reading.timestamp
                             ELSE now,
             kwh         |-> reading.kwh,
             voltage     |-> IF reading.voltage # 0 THEN reading.voltage
                             ELSE 2400,
             readingType |-> IF reading.readingType # "undefined"
                             THEN reading.readingType ELSE "consumption"]]

RECURSIVE Flatten(_)
Flatten(ss) == IF ss = <<>> THEN <<>> ELSE Head(ss) \o Flatten(Tail(ss))

\* app.post("/api/readings/batch") with an array body
PostBatch(batchReadings, sendOk) ==
    /\ alive
    /\ nextId + Len(batchReadings) <= MaxId
    /\ \A i \in 1..Len(batchReadings) :
          Len(DeviceReadingsOf(readings \o BatchCreated(batchReadings),
                               batchReadings[i].deviceId))
             <= MAX_READINGS_PER_DEVICE + MaxOverflow
    /\ LET created == BatchCreated(batchReadings)
       IN  /\ readings' = readings \o created
           /\ produced' = created
           /\ kafkaSent' = Flatten([i \in 1..Len(created) |->
                               publishReadingToKafka(created[i], sendOk)])
    /\ nextId' = nextId + Len(batchReadings)
    /\ delivered' = NoDelivery
    /\ response' = [status |-> 201]
    /\ lastOp' = [name |-> "POST /api/readings/batch", socket |-> NoSocket,
                  sendOk |-> sendOk]
    /\ UNCHANGED <<devices, registryVars, sockets, socketRooms, timers, now,
                   kafkaProducer, inflight, stopping, alive, subscribeHistory>>

(* ----------------------------- aggregate ------------------------------- *)

\* values.reduce((sum, val) => sum + val, 0)
RECURSIVE Reduce(_, _)
Reduce(values, sum) ==
    IF values = <<>> THEN sum ELSE Reduce(Tail(values), sum + Head(values))

\* Math.min(...values) and Math.max(...values) of a non-empty array
MathMin(values) ==
    CHOOSE m \in Range(values) : \A v \in Range(values) : m <= v
MathMax(values) ==
    CHOOSE m \in Range(values) : \A v \in Range(values) : m >= v

\* An aggregate whose minimum starts from 0
calculateAggregates_MinFromZero(deviceId) ==
    LET deviceReadings == getDeviceReadings(deviceId)
        values == [i \in 1..Len(deviceReadings) |-> deviceReadings[i].kwh]
        total  == Reduce(values, 0)
    IN  [deviceId |-> deviceId, total |-> total,
         average |-> [num |-> total,
                      den |-> IF values = <<>> THEN 1 ELSE Len(values)],
         count |-> Len(deviceReadings),
         min |-> MathMin(<<0>> \o values), max |-> MathMax(<<0>> \o values)]

\* calculateAggregates(deviceId). The quotient total / values.length is the
\* rational average.num / average.den.
calculateAggregates(deviceId) ==
    LET deviceReadings == getDeviceReadings(deviceId)
        values == [i \in 1..Len(deviceReadings) |-> deviceReadings[i].kwh]
        total  == Reduce(values, 0)
    IN  IF Len(deviceReadings) = 0
        THEN [deviceId |-> deviceId, total |-> 0,
              average |-> [num |-> 0, den |-> 1], count |-> 0,
              min |-> 0, max |-> 0]
        ELSE [deviceId |-> deviceId, total |-> total,
              average |-> [num |-> total, den |-> Len(values)],
              count |-> Len(deviceReadings),
              min |-> MathMin(values), max |-> MathMax(values)]

\* app.get("/api/readings/:deviceId/aggregate")
GetAggregate(deviceId) ==
    /\ alive
    /\ response' = IF ~validateDeviceId(deviceId) THEN [status |-> 400]
                   ELSE [status |-> 200,
                         body |-> calculateAggregates(deviceId)]
    /\ delivered' = NoDelivery
    /\ produced' = <<>>
    /\ kafkaSent' = <<>>
    /\ lastOp' = [name |-> "GET /api/readings/:deviceId/aggregate",
                  socket |-> NoSocket, deviceId |-> deviceId]
    /\ UNCHANGED <<storeVars, registryVars, sockets, socketRooms, timers, now,
                   kafkaProducer, inflight, stopping, subscribeHistory, alive>>

\* app.get("/api/readings/:deviceId")
GetReadings(deviceId) ==
    /\ alive
    /\ response' = IF ~validateDeviceId(deviceId) THEN [status |-> 400]
                   ELSE IF Len(getDeviceReadings(deviceId)) = 0
                   THEN [status |-> 404]
                   ELSE [status |-> 200,
                         body |-> getDeviceReadings(deviceId)]
    /\ delivered' = NoDelivery
    /\ produced' = <<>>
    /\ kafkaSent' = <<>>
    /\ lastOp' = [name |-> "GET /api/readings/:deviceId",
                  socket |-> NoSocket, deviceId |-> deviceId]
    /\ UNCHANGED <<storeVars, registryVars, sockets, socketRooms, timers, now,
                   kafkaProducer, inflight, stopping, subscribeHistory, alive>>

(* ------------------------------ status --------------------------------- *)

\* A lookup that answers with the first device for an id that no device has
DeviceIndex_FirstWhenMissing(id) ==
    IF \E i \in 1..Len(devices) : devices[i].id = id
    THEN CHOOSE i \in 1..Len(devices) : devices[i].id = id
    ELSE 1

\* devices.findIndex((d) => d.id === id); 0 stands for -1
DeviceIndex(id) ==
    IF \E i \in 1..Len(devices) : devices[i].id = id
    THEN CHOOSE i \in 1..Len(devices) : devices[i].id = id
    ELSE 0

\* A request body or mutation input: each of name, status, type and
\* location is "undefined", and id is <<>>, when the object does not have it
NoFields ==
    [id |-> <<>>, name |-> "undefined", status |-> "undefined",
     type |-> "undefined", location |-> "undefined"]

\* The object {status}
StatusOnly(status) == [NoFields EXCEPT !.status = status]

\* A merge that takes the status of `fields` and nothing else
WithFields_StatusAlone(index, fields, id) ==
    [devices EXCEPT ![index].status =
        IF fields.status # "undefined" THEN fields.status ELSE @]

\* A merge in which the id of the body comes last and wins
WithFields_BodyIdWins(index, fields, id) ==
    [devices EXCEPT ![index] =
        [id        |-> IF fields.id # <<>> THEN fields.id ELSE id,
         name      |-> IF fields.name # "undefined" THEN fields.name
                       ELSE @.name,
         status    |-> IF fields.status # "undefined" THEN fields.status
                       ELSE @.status,
         type      |-> IF fields.type # "undefined" THEN fields.type
                       ELSE @.type,
         location  |-> IF fields.location # "undefined" THEN fields.location
                       ELSE @.location,
         utilityId |-> @.utilityId]]

\* devices[index] = {...devices[index], ...fields, id}: a new object with
\* the fields of the device, over them those that `fields` has, and the id
\* of the request
WithFields(index, fields, id) ==
    [devices EXCEPT ![index] =
        [id        |-> id,
         name      |-> IF fields.name # "undefined" THEN fields.name
                       ELSE @.name,
         status    |-> IF fields.status # "undefined" THEN fields.status
                       ELSE @.status,
         type      |-> IF fields.type # "undefined" THEN fields.type
                       ELSE @.type,
         location  |-> IF fields.location # "undefined" THEN fields.location
                       ELSE @.location,
         utilityId |-> @.utilityId]]

\* Pending status callbacks after the catalog got a new object for id
AfterReplace(id) ==
    [k \in 1..Len(timers) |->
        IF timers[k].name = "status:update" /\ timers[k].key = id
        THEN [timers[k] EXCEPT !.live = FALSE] ELSE timers[k]]

\* Pending status callbacks after device.status = status on the catalog's
\* object for id
AfterAssign(id, status) ==
    [k \in 1..Len(timers) |->
        IF timers[k].name = "status:update" /\ timers[k].key = id
              /\ timers[k].live
        THEN [timers[k] EXCEPT !.status = status] ELSE timers[k]]

StatusOp(name, s, deviceId, status) ==
    [name |-> name, socket |-> s, deviceId |-> deviceId, status |-> status]

\* statusSubscriptions.forEach((socketId) => io.to(socketId).emit(name, ..))
EmitStatus(name, deviceId, status) ==
    LET ids == SetToSeq(statusSubscriptions)
    IN  [i \in 1..Len(ids) |->
            IoTo(ids[i], [name |-> name, deviceId |-> deviceId,
                          status |-> status, timestamp |-> now])]

\* app.put("/api/devices/:id") with the body `body`. The handler emits
\* nothing.
PutDevice(id, body) ==
    /\ alive
    /\ LET deviceIndex == DeviceIndex(id)
       IN  IF deviceIndex = 0
           THEN /\ response' = [status |-> 404]
                /\ UNCHANGED <<devices, timers>>
           ELSE /\ devices' = WithFields(deviceIndex, body, id)
                /\ timers' = AfterReplace(id)
                /\ response' = [status |-> 200]
    /\ delivered' = NoDelivery
    /\ produced' = <<>>
    /\ kafkaSent' = <<>>
    /\ lastOp' = [name |-> "PUT /api/devices/:id", socket |-> NoSocket,
                  deviceId |-> id, status |-> body.status, fields |-> body]
    /\ UNCHANGED <<readings, nextId, registryVars, sockets, socketRooms, now,
                   kafkaProducer, inflight, stopping, subscribeHistory, alive>>

\* The updateDevice mutation of the GraphQL root; a field of the input is
\* "undefined" when the input does not have it, "" is the empty string, and
\* a DeviceUpdateInput has no id. An error the resolver throws goes into
\* the "errors" of the answer.
updateDevice(id, input) ==
    /\ alive
    /\ LET deviceIndex == DeviceIndex(id)
       IN  IF deviceIndex = 0
           THEN /\ response' = [status |-> 200, errors |-> TRUE,
                                message |-> "Device not found"]
                /\ delivered' = NoDelivery
                /\ UNCHANGED <<devices, timers>>
           ELSE /\ devices' = WithFields(deviceIndex, input, id)
                /\ timers' = AfterReplace(id)
                /\ delivered' =
                     IF input.status \notin {"undefined", ""}
                     THEN Deliver(EmitStatus("status:update", id,
                                             devices'[deviceIndex].status))
                     ELSE NoDelivery
                /\ response' = [status |-> 200,
                                errors |-> SortThrows(getDeviceReadings(id))]
    /\ produced' = <<>>
    /\ kafkaSent' = <<>>
    /\ lastOp' = [name |-> "updateDevice", socket |-> NoSocket,
                  deviceId |-> id, status |-> input.status, fields |-> input]
    /\ UNCHANGED <<readings, nextId, registryVars, sockets, socketRooms, now,
                   kafkaProducer, inflight, stopping, subscribeHistory, alive>>

\* The device query of the GraphQL root: null for an id that is not in the
\* catalog, and null with an error when the sort of the readings throws.
\* data is << >> for null and << device >> for a device.
rootDevice(id) ==
    /\ alive
    /\ response' =
         LET index == DeviceIndex(id)
         IN  IF index = 0 THEN [status |-> 200, errors |-> FALSE,
                                data |-> << >>]
             ELSE IF SortThrows(getDeviceReadings(id))
                  THEN [status |-> 200, errors |-> TRUE, data |-> << >>]
                  ELSE [status |-> 200, errors |-> FALSE,
                        data |-> << devices[index] >>]
    /\ delivered' = NoDelivery
    /\ produced' = <<>>
    /\ kafkaSent' = <<>>
    /\ lastOp' = [name |-> "device", socket |-> NoSocket, deviceId |-> id]
    /\ UNCHANGED <<storeVars, registryVars, sockets, socketRooms, timers, now,
                   kafkaProducer, inflight, stopping, subscribeHistory, alive>>

\* socket.on("device:update-status")
DeviceUpdateStatus(s, deviceId, status) ==
    /\ alive
    /\ sockets[s] = "connected"
    /\ LET index == DeviceIndex(deviceId)
       IN  IF index = 0
           THEN /\ delivered' = NoDelivery
                /\ UNCHANGED <<devices, timers>>
           ELSE /\ devices' = [devices EXCEPT ![index].status = status]
                /\ timers' = AfterAssign(deviceId, status)
                /\ delivered' = Deliver(EmitStatus("device:status", deviceId,
                                                   status))
    /\ produced' = <<>>
    /\ kafkaSent' = <<>>
    /\ response' = NoResponse
    /\ lastOp' = StatusOp("device:update-status", s, deviceId, status)
    /\ UNCHANGED <<readings, nextId, registryVars, sockets, socketRooms, now,
                   kafkaProducer, inflight, stopping, subscribeHistory, alive>>

(* ------------------------------- clock --------------------------------- *)

\* Time passes between two handlers.
ClockAdvance ==
    /\ alive
    /\ now < MaxClock
    /\ now' = now + 1
    /\ delivered' = NoDelivery
    /\ produced' = <<>>
    /\ kafkaSent' = <<>>
    /\ response' = NoResponse
    /\ lastOp' = Op("clock", NoSocket)
    /\ UNCHANGED <<storeVars, registryVars, sockets, socketRooms, timers,
                   kafkaProducer, inflight, stopping, alive, subscribeHistory>>

(* ------------------------- inputs and Next ------------------------------ *)

Hours == 0..23

\* Math.random() draws: the ends of [0, 1), the middle, and a low value.
RandSamples == {0, 1, RandDenom \div 2, RandDenom - 1}

\* One draw per device of the catalog, all equal to r.
Draws(r) == [i \in 1..Len(InitialDevices) |-> r]

\* Readings a client sends on 'reading:new'
ClientReadings(ids, deviceIds, timestamps) ==
    {[id |-> i, deviceId |-> d, timestamp |-> t, kwh |-> 5000,
      voltage |-> 2400, readingType |-> "consumption"] :
        i \in ids, d \in deviceIds, t \in timestamps}

\* Bodies of POST /api/readings
PostBodies(deviceIds, kwhs, types) ==
    {[deviceId |-> d, hasKwh |-> h, kwh |-> IF h THEN k ELSE 0, voltage |-> 0,
      readingType |-> t] :
        d \in deviceIds, h \in BOOLEAN, k \in kwhs, t \in types}

\* Items of POST /api/readings/batch
BatchItems(deviceIds, timestamps) ==
    {[deviceId |-> d, hasTimestamp |-> TRUE, timestamp |-> t, kwh |-> 5000,
      voltage |-> 0, readingType |-> "undefined"] :
        d \in deviceIds, t \in timestamps}
    \cup
    {[deviceId |-> d, hasTimestamp |-> FALSE, timestamp |-> 0, kwh |-> 5000,
      voltage |-> 0, readingType |-> "undefined"] : d \in deviceIds}

\* Arrays of 1 .. n items
ArraysOf(S, n) == UNION {[1..k -> S] : k \in 1..n}

\* An id a client makes up, and the first socket
ClientId == 0
Sock1 == <<"sock-1">>
Sock2 == <<"sock-2">>

\* The store: every operation that records readings, with one subscriber.
NextStore ==
    \/ Connection(Sock1)
    \/ Subscribe(Sock1, GRID_ID)
    \/ Unsubscribe(Sock1, GRID_ID)
    \/ TimerFire(0)
    \/ \E r \in ClientReadings({ClientId}, {GRID_ID}, {0, MaxClock + 1}) :
         ReadingNew(Sock1, r)
    \/ \E b \in PostBodies({GRID_ID, UNKNOWN_ID}, {5004, -1000},
                           {"consumption"}) :
         PostReading(b, TRUE)
    \/ \E a \in ArraysOf(BatchItems({GRID_ID}, {MaxClock + 1}),
                         MAX_READINGS_PER_DEVICE + MaxOverflow) :
         PostBatch(a, TRUE)
    \/ simulateRealTimeReadings(12, Draws(0), Draws(0))
    \/ ClockAdvance

SpecStore == Init /\ [][NextStore]_vars

\* The generator alone, at every hour and at the sampled draws.
NextGenerator ==
    \/ \E h \in Hours, rKwh \in RandSamples, rVolt \in {0, RandDenom - 1} :
         simulateRealTimeReadings(h, Draws(rKwh), Draws(rVolt))
    \/ ClockAdvance

SpecGenerator == Init /\ [][NextGenerator]_vars

\* The four registries and the connection lifecycle.
NextRegistry ==
    \/ \E s \in SocketIds : Connection(s)
    \/ \E s \in SocketIds : Disconnect(s)
    \/ \E s \in SocketIds : Subscribe(s, GRID_ID)
    \/ \E s \in SocketIds : Unsubscribe(s, GRID_ID)
    \/ \E s \in SocketIds : SubscribeStatus(s, GRID_ID)
    \/ \E s \in SocketIds : SubscribeAlerts(s, GRID_ID)
    \/ \E s \in SocketIds : JoinRoom(s, LOBBY)
    \/ \E s \in SocketIds : LeaveRoom(s, LOBBY)
    \/ TimerFire(0)

SpecRegistry == Init /\ [][NextRegistry]_vars

\* Two rooms
Rooms == {LOBBY, ANNEX}

NextRooms ==
    \/ \E s \in SocketIds : Connection(s)
    \/ \E s \in SocketIds : Disconnect(s)
    \/ \E s \in SocketIds : \E r \in Rooms : JoinRoom(s, r)
    \/ \E s \in SocketIds : \E r \in Rooms : LeaveRoom(s, r)
    \/ TimerFire(0)

SpecRooms == Init /\ [][NextRooms]_vars

\* The four topic spaces under one name: a room that is named like a device
NextSpaces ==
    \/ \E s \in SocketIds : Connection(s)
    \/ \E s \in SocketIds : Subscribe(s, GRID_ID)
    \/ \E s \in SocketIds : Unsubscribe(s, GRID_ID)
    \/ \E s \in SocketIds : SubscribeStatus(s, GRID_ID)
    \/ \E s \in SocketIds : SubscribeAlerts(s, GRID_ID)
    \/ \E s \in SocketIds : JoinRoom(s, GRID_ID)
    \/ \E s \in SocketIds : LeaveRoom(s, GRID_ID)
    \/ \E s \in SocketIds : Disconnect(s)
    \/ TimerFire(0)

SpecSpaces == Init /\ [][NextSpaces]_vars

\* Every producer of events, with connections that have and have not
\* subscribed
NextFresh ==
    \/ \E s \in SocketIds : Connection(s)
    \/ Subscribe(Sock2, GRID_ID)
    \/ SubscribeStatus(Sock2, GRID_ID)
    \/ SubscribeAlerts(Sock2, GRID_ID)
    \/ JoinRoom(Sock2, Sock1)
    \/ Unsubscribe(Sock1, GRID_ID)
    \/ TimerFire(0)
    \/ \E r \in ClientReadings({ClientId}, {GRID_ID}, {0}) :
         ReadingNew(Sock1, r)
    \/ DeviceUpdateStatus(Sock1, GRID_ID, "inactive")
    \/ updateDevice(GRID_ID, StatusOnly("inactive"))
    \/ simulateRealTimeReadings(12, Draws(0), Draws(0))

SpecFresh == Init /\ [][NextFresh]_vars

\* Inputs of updateDevice (a DeviceUpdateInput has no id): none of the
\* fields, a status of the type Device, a status that is not of the type,
\* and a name, a type and a location
DeviceInputs ==
    {NoFields, StatusOnly("maintenance"), StatusOnly("broken"),
     [NoFields EXCEPT !.name = "Renamed", !.type = "solar",
                      !.location = "Building A - Floor 2"]}

\* Bodies of PUT /api/devices/:id: the same, and two that carry the id of
\* another device and an id that no device has
DeviceBodies ==
    DeviceInputs
    \cup {[NoFields EXCEPT !.id = SOLAR_ID, !.name = "Renamed"],
          [NoFields EXCEPT !.id = UNKNOWN_ID, !.status = "inactive"]}

\* The catalog under every operation that reads or changes a device, with
\* a member of the status topic.
NextCatalog ==
    \/ Connection(Sock1)
    \/ SubscribeStatus(Sock1, GRID_ID)
    \/ TimerFire(0)
    \/ \E d \in {GRID_ID, UNKNOWN_ID} : \E b \in DeviceBodies :
         PutDevice(d, b)
    \/ \E d \in {GRID_ID, UNKNOWN_ID} : \E b \in DeviceInputs :
         updateDevice(d, b)
    \/ \E d \in {WIND_ID, UNKNOWN_ID} : \E st \in {"active", "broken"} :
         DeviceUpdateStatus(Sock1, d, st)
    \/ \E d \in {GRID_ID, UNKNOWN_ID} : rootDevice(d)

SpecCatalog == Init /\ [][NextCatalog]_vars

\* The event loop runs the callback of a setTimeout that is due
SpecRegistryFair == SpecRegistry /\ WF_vars(TimerFire(0))

\* Producers of readings together with the subscribers of their topics.
NextFanout ==
    \/ \E s \in SocketIds : Connection(s)
    \/ \E s \in SocketIds : Disconnect(s)
    \/ \E s \in SocketIds : Subscribe(s, GRID_ID)
    \/ \E s \in SocketIds : Unsubscribe(s, GRID_ID)
    \/ \E s \in SocketIds : JoinRoom(s, CHOOSE o \in SocketIds : o # s)
    \/ \E s \in SocketIds : LeaveRoom(s, CHOOSE o \in SocketIds : o # s)
    \/ TimerFire(0)
    \/ \E s \in SocketIds :
         \E r \in ClientReadings({ClientId}, {GRID_ID}, {MaxClock + 1}) :
            ReadingNew(s, r)
    \/ \E b \in PostBodies({GRID_ID}, {5004}, {"consumption"}) :
         PostReading(b, TRUE)
    \/ simulateRealTimeReadings(12, Draws(0), Draws(0))

SpecFanout == Init /\ [][NextFanout]_vars

\* Readings whose device id, id and timestamp the client chooses.
NextClient ==
    \/ Connection(Sock1)
    \/ \E r \in ClientReadings({ClientId}, {GRID_ID, SOLAR_ID}, {0}) :
         ReadingNew(Sock1, r)
    \/ \E a \in ArraysOf(BatchItems({UNKNOWN_ID}, {0}), 1) :
         PostBatch(a, TRUE)
    \/ \E b \in PostBodies({UNKNOWN_ID, MALFORMED_ID}, {5004},
                           {"consumption"}) :
         PostReading(b, TRUE)

SpecClient == Init /\ [][NextClient]_vars

\* Statuses a client may send
Statuses == {"active", "inactive"}

\* The three ways to change a device's status, with status subscribers.
NextStatus ==
    \/ \E s \in SocketIds : Connection(s)
    \/ \E s \in SocketIds : Disconnect(s)
    \/ \E s \in SocketIds : \E d \in {GRID_ID, WIND_ID} :
         SubscribeStatus(s, d)
    \/ TimerFire(0)
    \/ \E d \in {GRID_ID, UNKNOWN_ID} : \E st \in Statuses \cup {"undefined"} :
         PutDevice(d, StatusOnly(st))
    \/ \E d \in {GRID_ID, UNKNOWN_ID} : \E st \in Statuses \cup {"undefined"} :
         updateDevice(d, StatusOnly(st))
    \/ \E s \in SocketIds : \E d \in {GRID_ID, UNKNOWN_ID} :
         \E st \in Statuses : DeviceUpdateStatus(s, d, st)

SpecStatus == Init /\ [][NextStatus]_vars

\* The generator over a store that holds client readings of the solar
\* device, some with a timestamp that cannot be converted.
NextTick ==
    \/ Connection(Sock1)
    \/ Subscribe(Sock1, WIND_ID)
    \/ TimerFire(0)
    \/ \E r \in ClientReadings({ClientId}, {SOLAR_ID}, {0, NotADate}) :
         ReadingNew(Sock1, r)
    \/ simulateRealTimeReadings(12, Draws(0), Draws(0))
    \/ ClockAdvance

SpecTick == Init /\ [][NextTick]_vars

\* POST /api/readings with every kind of body, a subscriber and the sink.
NextRest ==
    \/ \E connectOk \in BOOLEAN : initKafka(connectOk)
    \/ Connection(Sock1)
    \/ Subscribe(Sock1, GRID_ID)
    \/ TimerFire(0)
    \/ \E b \in PostBodies({<<>>, SHORT_ID, UNKNOWN_ID, GRID_ID},
                           {5004, -1000},
                           {"consumption", "generation", "undefined"}) :
         \E sendOk \in BOOLEAN : PostReading(b, sendOk)

SpecRest == Init /\ [][NextRest]_vars

\* Batch items that carry a kwh and take the time of the request
KwhItems(deviceIds, kwhs) ==
    {[deviceId |-> d, hasTimestamp |-> FALSE, timestamp |-> 0, kwh |-> k,
      voltage |-> 0, readingType |-> "undefined"] :
        d \in deviceIds, k \in kwhs}

\* The aggregate over stores that batches and single readings build.
NextAggregate ==
    \/ \E a \in ArraysOf(KwhItems({GRID_ID}, {5000, 10000, 15000}),
                         MAX_READINGS_PER_DEVICE + MaxOverflow) :
         PostBatch(a, TRUE)
    \/ \E b \in PostBodies({GRID_ID}, {5004, -2500},
                           {"consumption", "generation"}) :
         PostReading(b, TRUE)
    \/ \E d \in {GRID_ID, SOLAR_ID, MALFORMED_ID} : GetAggregate(d)

SpecAggregate == Init /\ [][NextAggregate]_vars

\* The history of a device over stores that batches and single readings
\* build, asked for with well-formed, unknown and malformed ids.
NextHistory ==
    \/ \E a \in ArraysOf(KwhItems({GRID_ID, SOLAR_ID}, {5000, 10000}), 2) :
         PostBatch(a, TRUE)
    \/ \E b \in PostBodies({GRID_ID}, {5004}, {"consumption"}) :
         PostReading(b, TRUE)
    \/ \E d \in {GRID_ID, SOLAR_ID, UNKNOWN_ID, SHORT_ID, MALFORMED_ID} :
         GetReadings(d)
    \/ ClockAdvance

SpecHistory == Init /\ [][NextHistory]_vars

\* One reading topic under subscribe, unsubscribe, disconnect and publish
\* from two connections.
NextTopic ==
    \/ \E s \in SocketIds : Connection(s)
    \/ \E s \in SocketIds : Disconnect(s)
    \/ \E s \in SocketIds : Subscribe(s, GRID_ID)
    \/ \E s \in SocketIds : Unsubscribe(s, GRID_ID)
    \/ TimerFire(0)
    \/ \E s \in SocketIds :
         \E r \in ClientReadings({ClientId}, {GRID_ID}, {MaxClock + 1}) :
            ReadingNew(s, r)
    \/ \E b \in PostBodies({GRID_ID}, {5004}, {"consumption"}) :
         PostReading(b, TRUE)
    \/ simulateRealTimeReadings(12, Draws(0), Draws(0))

SpecTopic == Init /\ [][NextTopic]_vars

\* One topic with members whose peer goes away before the server sees it
NextStale ==
    \/ \E s \in SocketIds : Connection(s)
    \/ \E s \in SocketIds : PeerVanishes(s)
    \/ \E s \in SocketIds : Disconnect(s)
    \/ \E s \in SocketIds : Subscribe(s, GRID_ID)
    \/ TimerFire(0)
    \/ \E s \in SocketIds :
         \E r \in ClientReadings({ClientId}, {GRID_ID}, {MaxClock + 1}) :
            ReadingNew(s, r)
    \/ \E b \in PostBodies({GRID_ID}, {5004}, {"consumption"}) :
         PostReading(b, TRUE)
    \/ simulateRealTimeReadings(12, Draws(0), Draws(0))

SpecStale == Init /\ [][NextStale]_vars

\* Start, traffic, signal and exit
NextLifecycle ==
    \/ \E ok \in BOOLEAN : initKafka(ok)
    \/ \E s \in SocketIds : Connection(s)
    \/ \E s \in SocketIds : Subscribe(s, GRID_ID)
    \/ \E s \in SocketIds : Disconnect(s)
    \/ TimerFire(0)
    \/ \E h \in {3, 12} : simulateRealTimeReadings(h, Draws(0), Draws(0))
    \/ \E ok \in BOOLEAN : Shutdown(ok)
    \/ Exit

SpecLifecycle == Init /\ [][NextLifecycle]_vars

\* The sink: every operation that records readings, with a producer that
\* connects or not, accepts or rejects, and answers at once or later.
NextSink ==
    \/ \E ok \in BOOLEAN : initKafka(ok)
    \/ Connection(Sock1)
    \/ Subscribe(Sock1, GRID_ID)
    \/ TimerFire(0)
    \/ \E r \in ClientReadings({ClientId}, {GRID_ID}, {0}) :
         ReadingNew(Sock1, r)
    \/ \E b \in PostBodies({GRID_ID}, {5004}, {"undefined"}) :
         \E ok \in BOOLEAN : PostReading(b, ok)
    \/ \E a \in ArraysOf(BatchItems({GRID_ID, SOLAR_ID}, {0}), 2) :
         \E ok \in BOOLEAN : PostBatch(a, ok)
    \/ simulateRealTimeReadings(12, Draws(0), Draws(0))
    \/ \E b \in PostBodies({GRID_ID}, {5004}, {"undefined"}) :
         PostReadingAwait(b)
    \/ \E ok \in BOOLEAN : SendSettles(ok)
    \/ Shutdown(TRUE)

SpecSink == Init /\ [][NextSink]_vars

Next == NextStore \/ NextGenerator \/ NextRegistry \/ NextFanout
           \/ NextClient \/ NextStatus \/ NextTick \/ NextRest
           \/ NextAggregate \/ NextTopic \/ NextStale \/ NextLifecycle
           \/ NextSink \/ NextRooms \/ NextHistory \/ NextSpaces
           \/ NextFresh \/ NextCatalog

Spec == Init /\ [][Next]_vars

(* ============================== claims ================================= *)

\* Number of places of a sequence that hold x
Count(seq, x) == Cardinality({i \in 1..Len(seq) : seq[i] = x})

\* Every device id a stored reading carries
StoredDeviceIds == {readings[i].deviceId : i \in 1..Len(readings)}

\* The handlers that record readings
RecordOps == {"tick", "POST /api/readings", "POST /api/readings/batch",
              "reading:new"}

\* 'reading:update' events for deviceId among the events a socket received
UpdatesFor(events, deviceId) ==
    {i \in 1..Len(events) :
        events[i].name = "reading:update" /\ events[i].deviceId = deviceId}

(* C1: in every reachable state the store holds at most                    *)
(* MAX_READINGS_PER_DEVICE readings of every device id.                     *)
C1_AtMostCapPerDevice ==
    \A d \in StoredDeviceIds :
        Len(getDeviceReadings(d)) <= MAX_READINGS_PER_DEVICE

(* C2: when a handler records readings and its eviction removes a reading   *)
(* r1 of a device and keeps a reading r2 of the same device,                *)
(* r1.timestamp <= r2.timestamp. A reading is removed when the array holds  *)
(* fewer copies of it after the step than the array plus the pushed         *)
(* readings held before.                                                    *)
C2_Step ==
    LET before == readings \o produced'
        after  == readings'
    IN  lastOp'.name \in RecordOps =>
          \A r1 \in Range(before) : \A r2 \in Range(after) :
             (/\ Count(after, r1) < Count(before, r1)
              /\ r1.deviceId = r2.deviceId)
             => r1.timestamp <= r2.timestamp

C2_EvictionNeverInverts == [][C2_Step]_vars

(* C3: a reading produced by a tick or by a successful POST /api/readings   *)
(* is emitted as 'reading:update' exactly once to every socket that is a    *)
(* member of its device's reading topic, and to no other socket.            *)
C3_ExactlyTheMembers ==
    lastOp.name \in {"tick", "POST /api/readings"} =>
       \A i \in 1..Len(produced) : \A s \in SocketIds :
          Count(delivered[s], ReadingUpdate(produced[i]))
             = IF s \in MapGet(deviceSubscriptions, produced[i].deviceId)
               THEN 1 ELSE 0

(* C4: no socket that is not connected is a member of a topic of any of    *)
(* the four registries; the disconnect cleanup removes the socket from     *)
(* every topic, leaves the memberships of the other sockets as they were,  *)
(* and running it once more changes nothing.                               *)
TopicsOf(reg, s) ==
    [deviceSubscriptions |-> {k \in DOMAIN reg.deviceSubscriptions :
                                 s \in reg.deviceSubscriptions[k]},
     statusSubscriptions |-> s \in reg.statusSubscriptions,
     alertSubscriptions  |-> {k \in DOMAIN reg.alertSubscriptions :
                                 s \in reg.alertSubscriptions[k]},
     roomSubscriptions   |-> {k \in DOMAIN reg.roomSubscriptions :
                                 s \in reg.roomSubscriptions[k]}]

NoTopics ==
    [deviceSubscriptions |-> {}, statusSubscriptions |-> FALSE,
     alertSubscriptions |-> {}, roomSubscriptions |-> {}]

C4_State ==
    \A s \in SocketIds :
        sockets[s] # "connected" => TopicsOf(Registries, s) = NoTopics

C4_Step ==
    \A s \in SocketIds :
        (sockets[s] = "connected" /\ sockets'[s] = "disconnected") =>
           /\ TopicsOf(Registries', s) = NoTopics
           /\ \A o \in SocketIds \ {s} :
                 TopicsOf(Registries', o) = TopicsOf(Registries, o)
           /\ RemoveEverywhere(Registries', s) = Registries'

C4_ClosedSocketsAreNowhere == [][C4_Step /\ C4_State']_vars

\* a socket that subscribed (its timer is still pending) has disconnected,
\* while the other socket is still a member of topics of all four registries
C4_Witness ==
    \E s \in SocketIds : \E o \in SocketIds \ {s} :
        /\ lastOp = Op("disconnect", s)
        /\ \E i \in 1..Len(timers) : timers[i].socket = s
        /\ TopicsOf(Registries, o).deviceSubscriptions # {}
        /\ TopicsOf(Registries, o).statusSubscriptions
        /\ TopicsOf(Registries, o).alertSubscriptions # {}
        /\ TopicsOf(Registries, o).roomSubscriptions # {}

(* C5 as stated: after a tick the store holds, for every device of the     *)
(* catalog, exactly one reading that the tick generated.                   *)
TickIds == (nextId - Len(devices) + 1)..nextId

LaterCount(rs, deviceId, ts) ==
    Cardinality({j \in 1..Len(rs) :
                    rs[j].deviceId = deviceId /\ rs[j].timestamp > ts})

(* C5 amended: a tick pushes exactly one new reading for every device of   *)
(* the catalog, whether or not the device's topic has a member, and the    *)
(* new reading is stored after the tick unless the store already held      *)
(* MAX_READINGS_PER_DEVICE readings of the device with later timestamps.   *)
C5_Step ==
    lastOp'.name = "tick" =>
       /\ Len(produced') = Len(devices)
       /\ \A i \in 1..Len(devices) :
             /\ produced'[i].deviceId = devices[i].id
             /\ \/ Count(readings', produced'[i]) = 1
                \/ LaterCount(readings, devices[i].id, produced'[i].timestamp)
                      >= MAX_READINGS_PER_DEVICE

C6_Step ==
    \A p \in DOMAIN subscribeHistory :
        (/\ subscribeHistory[p] = "unsubscribed"
         /\ subscribeHistory'[p] = "unsubscribed")
        => UpdatesFor(delivered'[p[1]], p[2]) = {}

C6_NoUpdateAfterUnsubscribe == [][C6_Step]_vars

(* C7: a connected socket that sent subscribe for a device twice or more   *)
(* is a member of the device's topic and receives every reading of the     *)
(* device that a tick or a POST publishes exactly once; one unsubscribe     *)
(* removes it from the topic.                                              *)
C7_State ==
    \A p \in DOMAIN subscribeHistory :
        (subscribeHistory[p] = "subscribed-again"
           /\ sockets[p[1]] = "connected") =>
           /\ p[1] \in MapGet(deviceSubscriptions, p[2])
           /\ lastOp.name \in {"tick", "POST /api/readings"} =>
                 \A i \in 1..Len(produced) :
                    produced[i].deviceId = p[2] =>
                       Count(delivered[p[1]], ReadingUpdate(produced[i])) = 1

C7_Step ==
    \A p \in DOMAIN subscribeHistory :
        (/\ subscribeHistory[p] = "subscribed-again"
         /\ subscribeHistory'[p] = "unsubscribed")
        => p[1] \notin MapGet(deviceSubscriptions', p[2])

C7_SubscribedTwiceDeliveredOnce == [][C7_State' /\ C7_Step]_vars

(* C8: a reading a client submits on 'reading:new' is recorded and         *)
(* delivered to every member of its device's reading topic, the submitting *)
(* socket included when it is a member.                                    *)
C8_ReadingNewReachesEveryMember ==
    lastOp.name = "reading:new" =>
       \A i \in 1..Len(produced) :
          /\ Count(readings, produced[i]) >= 1
                \/ LaterCount(readings, produced[i].deviceId,
                              produced[i].timestamp)
                      >= MAX_READINGS_PER_DEVICE
          /\ \A s \in MapGet(deviceSubscriptions, produced[i].deviceId) :
                Count(delivered[s], ReadingUpdate(produced[i])) >= 1

(* C9: for a solar device generateReading yields kind 'generation', with a *)
(* magnitude in [-7, -2] exactly when 6 <= hour < 18 and magnitude 0 at    *)
(* every other hour.                                                       *)
C9_SolarByHour ==
    lastOp.name = "tick" =>
       \A i \in 1..Len(devices) :
          devices[i].type = "solar" =>
             /\ produced[i].readingType = "generation"
             /\ IF 6 <= lastOp.hour /\ lastOp.hour < 18
                THEN -7000 <= produced[i].kwh /\ produced[i].kwh <= -2000
                ELSE produced[i].kwh = 0

(* C10 as stated: for a non-solar device generateReading yields kind       *)
(* 'consumption' and a rounded magnitude m with 5 <= m < 15.               *)
C10_ConsumptionBelow15 ==
    lastOp.name = "tick" =>
       \A i \in 1..Len(devices) :
          devices[i].type # "solar" =>
             /\ produced[i].readingType = "consumption"
             /\ 5000 <= produced[i].kwh /\ produced[i].kwh < 15000

(* C10 amended: for a non-solar device generateReading yields kind         *)
(* 'consumption' and a rounded magnitude m with 5 <= m <= 15, a multiple   *)
(* of 0.01; the rounding to two decimals can return 15.00.                 *)
C10_ConsumptionUpTo15 ==
    lastOp.name = "tick" =>
       \A i \in 1..Len(devices) :
          devices[i].type # "solar" =>
             /\ produced[i].readingType = "consumption"
             /\ 5000 <= produced[i].kwh /\ produced[i].kwh <= 15000
             /\ produced[i].kwh % 10 = 0

\* a tick whose draw rounds up to 15.00 kWh on every non-solar device
C10_Witness ==
    /\ lastOp.name = "tick"
    /\ \A i \in 1..Len(devices) :
          devices[i].type # "solar" => produced[i].kwh = 15000

(* C11: in every reachable state the history of every device, the stored   *)
(* readings of the device in array order as GET /api/readings/:deviceId    *)
(* returns them, is sorted non-decreasing by timestamp.                    *)
C11_HistorySortedByTimestamp ==
    \A d \in StoredDeviceIds :
        LET history == getDeviceReadings(d)
        IN  \A i, j \in 1..Len(history) :
               i < j => history[i].timestamp <= history[j].timestamp

\* a is b with some places left out
RECURSIVE IsSubsequence(_, _)
IsSubsequence(a, b) ==
    \/ a = <<>>
    \/ /\ b # <<>>
       /\ IF Head(a) = Head(b) THEN IsSubsequence(Tail(a), Tail(b))
          ELSE IsSubsequence(a, Tail(b))

(* C12: after every handler that records readings, the history of every    *)
(* device is the history it had before followed by the readings the        *)
(* handler pushed for it, with some readings left out: the survivors keep  *)
(* the order in which they were recorded.                                  *)
C12_Step ==
    lastOp'.name \in RecordOps =>
       \A r \in Range(readings \o produced') :
          IsSubsequence(DeviceReadingsOf(readings', r.deviceId),
                        DeviceReadingsOf(readings \o produced', r.deviceId))

C12_InsertionOrderKept == [][C12_Step]_vars

\* a handler has recorded a reading of the grid meter, an eviction has run
\* (an id handed out is stored no more), and the survivors of the grid meter
\* are stored in an order that is not the order of their timestamps
C12_Witness ==
    /\ lastOp.name \in RecordOps
    /\ produced # <<>>
    /\ \E id \in 1..nextId : \A k \in 1..Len(readings) : readings[k].id # id
    /\ LET history == getDeviceReadings(GRID_ID)
       IN  /\ Len(history) = MAX_READINGS_PER_DEVICE
           /\ \E i, j \in 1..Len(history) :
                 i < j /\ history[i].timestamp > history[j].timestamp

(* C13: a handler that records readings, with the eviction it triggers,    *)
(* leaves the history of every device it recorded no reading for as it was.*)
C13_Step ==
    lastOp'.name \in RecordOps =>
       \A d \in StoredDeviceIds :
          (\A i \in 1..Len(produced') : produced'[i].deviceId # d)
          => DeviceReadingsOf(readings', d) = DeviceReadingsOf(readings, d)

C13_OtherDevicesUntouched == [][C13_Step]_vars

(* C14: in every reachable state every stored reading carries the id of a  *)
(* device of the catalog.                                                  *)
C14_StoredReadingsOfKnownDevices ==
    \A d \in StoredDeviceIds : \E i \in 1..Len(devices) : devices[i].id = d

\* The handlers that can change the status of a device
StatusOps == {"PUT /api/devices/:id", "updateDevice", "device:update-status"}

(* C15: after every handler that set the status of a device of the catalog *)
(* (PUT /api/devices/:id, GraphQL updateDevice, 'device:update-status'),   *)
(* every member of the status topic has received an event that carries the *)
(* device id and the new status.                                           *)
C15_StatusMutationPublished ==
    (/\ lastOp.name \in StatusOps
     /\ lastOp.status # "undefined"
     /\ DeviceIndex(lastOp.deviceId) # 0)
    => \A s \in statusSubscriptions :
          \E k \in 1..Len(delivered[s]) :
             /\ delivered[s][k].name \in {"status:update", "device:status"}
             /\ delivered[s][k].deviceId = lastOp.deviceId
             /\ delivered[s][k].status = lastOp.status
             /\ delivered[s][k].status = StatusOf(lastOp.deviceId)

(* C16: after every tick the process is still running (later ticks run),   *)
(* and every device of the catalog other than the one whose step threw has *)
(* a reading pushed by this tick and delivered to every member of its      *)
(* reading topic.                                                          *)
C16_TickIsolatesFailures ==
    lastOp.name = "tick" =>
       /\ alive
       /\ \A i \in 1..Len(devices) :
             devices[i].id # lastOp.threw =>
                \E k \in 1..Len(produced) :
                   /\ produced[k].deviceId = devices[i].id
                   /\ \A s \in MapGet(deviceSubscriptions, devices[i].id) :
                         Count(delivered[s], ReadingUpdate(produced[k])) >= 1

\* Two digits
DigitPairs == {<<a, b>> : a \in Digit, b \in Digit}

\* "EAGLE-200-" followed by five digits, spelled out place by place
WellFormedId(id) ==
    /\ Len(id) = 6
    /\ id[1] = "EAGLE-200-"
    /\ <<id[2], id[3]>> \in DigitPairs
    /\ <<id[4], id[5]>> \in DigitPairs
    /\ id[6] \in Digit

\* The answer the documented validation rules give to a body that must be
\* rejected, 0 for a body that must be accepted
RejectionOf(body) ==
    IF body.deviceId = <<>> \/ ~WellFormedId(body.deviceId) THEN 400
    ELSE IF ~body.hasKwh THEN 400
    ELSE IF body.readingType = "consumption" /\ body.kwh < 0 THEN 400
    ELSE IF body.deviceId \notin DeviceIds THEN 404
    ELSE 0

(* C17: a POST /api/readings whose body has a missing or malformed device  *)
(* id, no kwh, or a negative kwh with readingType 'consumption' is         *)
(* answered 400, one with a well-formed id of no device 404, and such a    *)
(* request leaves the store, the id counter and the registries as they     *)
(* were, delivers nothing and hands nothing to the sink.                   *)
C17_Step ==
    (lastOp'.name = "POST /api/readings" /\ RejectionOf(lastOp'.body) # 0)
    => /\ response'.status = RejectionOf(lastOp'.body)
       /\ readings' = readings
       /\ nextId' = nextId
       /\ Registries' = Registries
       /\ delivered' = NoDelivery
       /\ produced' = <<>>
       /\ kafkaSent' = <<>>

C17_RejectedPostChangesNothing == [][C17_Step]_vars

\* a POST for the grid meter was rejected while the store held a reading,
\* the sink was connected and a socket was subscribed to the grid meter
C17_Witness ==
    /\ lastOp.name = "POST /api/readings"
    /\ lastOp.body.deviceId = GRID_ID
    /\ response.status = 400
    /\ readings # <<>>
    /\ kafkaProducer = "connected"
    /\ Sock1 \in MapGet(deviceSubscriptions, GRID_ID)
    /\ sockets[Sock1] = "connected"

(* C18: no reading that a POST /api/readings stored has readingType        *)
(* 'consumption' and a negative kwh, whatever the body.                    *)
C18_NoNegativeConsumptionStored ==
    (lastOp.name = "POST /api/readings" /\ response.status = 201)
    => \A i \in 1..Len(produced) :
          ~(produced[i].readingType = "consumption" /\ produced[i].kwh < 0)

(* C19: when the producer rejects the message of a reading that a POST     *)
(* /api/readings recorded, the POST answers 201, the reading is recorded   *)
(* and delivered to the members of its topic as for any other POST, the    *)
(* registries are unchanged and nothing reaches the sink; and no step      *)
(* hands the sink a message of a reading the step did not record itself    *)
(* (no later retry).                                                       *)
C19_Step ==
    /\ (/\ lastOp'.name = "POST /api/readings"
        /\ RejectionOf(lastOp'.body) = 0
        /\ kafkaProducer = "connected"
        /\ ~lastOp'.sendOk)
       => /\ response'.status = 201
          /\ alive'
          /\ kafkaSent' = <<>>
          /\ Len(produced') = 1
          /\ Count(readings', produced'[1]) = 1
          /\ Len(readings') = IF Len(getDeviceReadings(lastOp'.body.deviceId))
                                    >= MAX_READINGS_PER_DEVICE
                              THEN Len(readings) ELSE Len(readings) + 1
          /\ Registries' = Registries
          /\ \A s \in MapGet(deviceSubscriptions, lastOp'.body.deviceId) :
                Count(delivered'[s], ReadingUpdate(produced'[1])) >= 1
    /\ \A k \in 1..Len(kafkaSent') :
          /\ Count(kafkaSent', kafkaSent'[k]) = 1
          /\ \E i \in 1..Len(produced') :
                produced'[i].id = kafkaSent'[k].value.id

RECURSIVE KwhFrom(_, _)
KwhFrom(h, i) == IF i > Len(h) THEN 0 ELSE h[i].kwh + KwhFrom(h, i + 1)

(* C20: GET /api/readings/:deviceId/aggregate answers, for a device with   *)
(* no stored reading, count 0, total 0, average 0, min 0, max 0, and       *)
(* otherwise count = the number of stored readings of the device, total =  *)
(* the sum of their kwh, average = total / count, min and max = the least  *)
(* and the greatest kwh; history [5, 10, 15] gives 3, 30, 10, 5, 15.       *)
C20_AggregateOfStoredReadings ==
    (lastOp.name = "GET /api/readings/:deviceId/aggregate"
        /\ response.status = 200)
    => LET h == getDeviceReadings(lastOp.deviceId)
           stats == response.body
       IN  /\ stats.deviceId = lastOp.deviceId
           /\ stats.count = Len(h)
           /\ stats.total = KwhFrom(h, 1)
           /\ stats.average.den > 0
           /\ IF h = <<>>
              THEN /\ stats.average.num = 0
                   /\ stats.min = 0
                   /\ stats.max = 0
              ELSE /\ stats.average.num * stats.count
                         = stats.total * stats.average.den
                   /\ \E i \in 1..Len(h) : h[i].kwh = stats.min
                   /\ \E i \in 1..Len(h) : h[i].kwh = stats.max
                   /\ \A i \in 1..Len(h) :
                         stats.min <= h[i].kwh /\ h[i].kwh <= stats.max
           /\ [i \in 1..Len(h) |-> h[i].kwh] = <<5000, 10000, 15000>>
              => /\ stats.count = 3
                 /\ stats.total = 30000
                 /\ stats.average.num = 10000 * stats.average.den
                 /\ stats.min = 5000
                 /\ stats.max = 15000

\* the aggregate of the grid meter was asked for while its history was
\* 5, 10, 15 kWh
C20_Witness ==
    /\ lastOp.name = "GET /api/readings/:deviceId/aggregate"
    /\ lastOp.deviceId = GRID_ID
    /\ response.status = 200
    /\ LET h == getDeviceReadings(GRID_ID)
       IN  [i \in 1..Len(h) |-> h[i].kwh] = <<5000, 10000, 15000>>
    /\ response.body.total = 30000

\* The open connections whose last subscribe or unsubscribe on the reading
\* topic of deviceId was a subscribe
LastSubscribed(deviceId) ==
    {s \in SocketIds :
        /\ sockets[s] = "connected"
        /\ HistoryOf(s, deviceId) \in {"subscribed", "subscribed-again"}}

(* C21: in every state reached by interleaved subscribe, unsubscribe,      *)
(* disconnect and publish events of the connections, the member set of a   *)
(* reading topic is exactly the set of open connections whose last         *)
(* subscribe or unsubscribe on the topic was a subscribe; a published      *)
(* reading is delivered to no connection more than once and to no          *)
(* connection outside the member set, and a reading that a tick or a POST  *)
(* publishes is delivered to every member.                                 *)
C21_MembershipIsLastAction ==
    /\ \A d \in DOMAIN deviceSubscriptions \cup {GRID_ID} :
          MapGet(deviceSubscriptions, d) = LastSubscribed(d)
    /\ lastOp.name \in {"tick", "POST /api/readings", "reading:new"} =>
          \A i \in 1..Len(produced) : \A s \in SocketIds :
             LET n == Count(delivered[s], ReadingUpdate(produced[i]))
                 member == s \in LastSubscribed(produced[i].deviceId)
             IN  /\ n <= 1
                 /\ ~member => n = 0
                 /\ (member /\ lastOp.name # "reading:new") => n = 1

\* both connections are open, the last message of the first on the topic
\* was a subscribe and that of the second an unsubscribe, and a POST was
\* delivered to the first alone
C21_Witness ==
    /\ lastOp.name = "POST /api/readings"
    /\ response.status = 201
    /\ \A s \in SocketIds : sockets[s] = "connected"
    /\ HistoryOf(Sock1, GRID_ID) \in {"subscribed", "subscribed-again"}
    /\ HistoryOf(Sock2, GRID_ID) = "unsubscribed"
    /\ Len(delivered[Sock1]) = 1
    /\ delivered[Sock2] = <<>>

(* C22: an 'unsubscribe' for a device topic or a 'leave:room' for a room   *)
(* from a connection that is not a member of it, also when the topic or    *)
(* room was never subscribed to by anyone, raises no error (the process    *)
(* goes on and the unsubscribe is acknowledged) and leaves the four        *)
(* registries, keys included, exactly as they were.                        *)
C22_Step ==
    \A s \in SocketIds :
       /\ \A d \in {GRID_ID} :
             (Unsubscribe(s, d) /\ s \notin MapGet(deviceSubscriptions, d))
             => /\ Registries' = Registries
                /\ alive'
                /\ delivered'[s] = << [name |-> "unsubscribed",
                                       deviceId |-> d] >>
       /\ \A r \in {LOBBY} :
             (LeaveRoom(s, r) /\ s \notin MapGet(roomSubscriptions, r))
             => /\ Registries' = Registries
                /\ alive'

C22_NonMemberUnsubscribeIsNoOp == [][C22_Step]_vars

\* a connection has sent unsubscribe for a topic that never had a Set,
\* while the other connection is a member of status, alert and room topics
C22_Witness ==
    \E s \in SocketIds : \E o \in SocketIds \ {s} :
        /\ lastOp = Op("unsubscribe", s)
        /\ GRID_ID \notin DOMAIN deviceSubscriptions
        /\ Len(delivered[s]) = 1
        /\ o \in statusSubscriptions
        /\ TopicsOf(Registries, o).alertSubscriptions # {}
        /\ TopicsOf(Registries, o).roomSubscriptions # {}

\* The 'reading:update' events among the events a connection received
UpdatesIn(events) == SelectSeq(events, LAMBDA e : e.name = "reading:update")

(* C23: the 'reading:update' events a tick, a POST /api/readings or a      *)
(* 'reading:new' emits to one connection are updates of the readings that  *)
(* this very operation published, in the order in which it published them; *)
(* since the operations run one after the other, no reading published      *)
(* later is emitted to the connection before one published earlier.        *)
C23_EmittedInPublishOrder ==
    lastOp.name \in {"tick", "POST /api/readings", "reading:new"} =>
       \A s \in SocketIds :
          LET ups == UpdatesIn(delivered[s])
          IN  \E f \in [1..Len(ups) -> 1..Len(produced)] :
                 /\ \A i \in 1..Len(ups) :
                       ups[i] = ReadingUpdate(produced[f[i]])
                 /\ \A i, j \in 1..Len(ups) : i < j => f[i] <= f[j]

\* a tick has emitted the update of its reading to a subscriber of a
\* device whose earlier readings are still in the store
C23_Witness ==
    \E s \in SocketIds :
        /\ lastOp.name = "tick"
        /\ UpdatesIn(delivered[s]) # <<>>
        /\ Len(DeviceReadingsOf(readings, delivered[s][1].deviceId)) >= 2

\* The members of a device topic whose peer is gone
StaleMembers(deviceId) ==
    {s \in MapGet(deviceSubscriptions, deviceId) : sockets[s] = "stale"}

(* C24: when a tick, a POST /api/readings or a 'reading:new' publishes a   *)
(* reading of a device whose topic has a member whose peer is gone, the    *)
(* send to that member is dropped, every other member still receives the   *)
(* update (the sender of a 'reading:new' aside), and no error reaches the  *)
(* producer: the process goes on and the POST is answered 201.             *)
C24_StaleMemberIsSkipped ==
    lastOp.name \in {"tick", "POST /api/readings", "reading:new"} =>
       \A i \in 1..Len(produced) :
          LET d == produced[i].deviceId
          IN  StaleMembers(d) # {} =>
                 /\ alive
                 /\ lastOp.name = "POST /api/readings" =>
                       response.status = 201
                 /\ \A s \in StaleMembers(d) : delivered[s] = <<>>
                 /\ \A s \in MapGet(deviceSubscriptions, d) :
                       (sockets[s] = "connected" /\ s # lastOp.socket) =>
                          Count(delivered[s], ReadingUpdate(produced[i])) >= 1

\* a tick ran while one member of the topic was gone and the other was not
C24_Witness ==
    \E s \in SocketIds : \E o \in SocketIds \ {s} :
        /\ lastOp.name = "tick"
        /\ s \in StaleMembers(GRID_ID)
        /\ o \in MapGet(deviceSubscriptions, GRID_ID)
        /\ sockets[o] = "connected"
        /\ UpdatesIn(delivered[o]) # <<>>

(* C25: once shutdown has begun, no tick runs and no reading is generated. *)
C25_NoTickAfterShutdown ==
    stopping => /\ lastOp.name # "tick"
                /\ produced = <<>>

\* The sink was handed one message for each of the readings rs, in their
\* order, each with the six fields of its reading
ForwardedOnce(rs) ==
    /\ Len(kafkaSent) = Len(rs)
    /\ \A i \in 1..Len(rs) :
          /\ kafkaSent[i].value.deviceId = rs[i].deviceId
          /\ kafkaSent[i].value.value = rs[i].kwh
          /\ kafkaSent[i].value.id = rs[i].id
          /\ kafkaSent[i].value.timestamp = rs[i].timestamp
          /\ kafkaSent[i].value.voltage = rs[i].voltage
          /\ kafkaSent[i].value.readingType = rs[i].readingType

\* The last operation was an answered POST whose send the sink accepted
PostForwarded ==
    /\ lastOp.name \in {"POST /api/readings", "POST /api/readings/batch"}
    /\ response.status = 201
    /\ kafkaProducer = "connected"
    /\ lastOp.sendOk

(* C26, as claimed: with a connected producer, the readings recorded by a  *)
(* POST /api/readings, a POST /api/readings/batch, a tick or a             *)
(* 'reading:new' are each forwarded to the sink once with their six fields.*)
C26_EveryRecordedReadingForwarded ==
    /\ PostForwarded => ForwardedOnce(produced)
    /\ (lastOp.name \in {"tick", "reading:new"}
          /\ kafkaProducer = "connected") => ForwardedOnce(produced)

(* C26, amended: with a connected producer that accepts the send, the      *)
(* readings that a POST /api/readings or a POST /api/readings/batch        *)
(* answers with 201 are each forwarded to the sink once with deviceId,     *)
(* magnitude, id, timestamp, voltage and kind; the readings of a tick or   *)
(* of a 'reading:new' are not forwarded.                                   *)
C26_PostedReadingsForwardedOnce ==
    /\ PostForwarded => ForwardedOnce(produced)
    /\ (lastOp.name = "send settles" /\ kafkaProducer = "connected"
          /\ lastOp.sendOk) => ForwardedOnce(<< lastOp.reading >>)
    /\ lastOp.name \in {"tick", "reading:new"} => kafkaSent = <<>>

\* a batch of two readings was answered 201 and forwarded
C26_Witness ==
    /\ PostForwarded
    /\ lastOp.name = "POST /api/readings/batch"
    /\ Len(produced) = 2
    /\ Len(kafkaSent) = 2

(* C27: a POST /api/readings whose send to the sink has not been answered  *)
(* has stored its reading, has emitted it to the members of the topic and  *)
(* has returned its response to the caller.                                *)
C27_PostDoesNotWaitForSink ==
    lastOp.name = "POST /api/readings awaits send" =>
       /\ \A i \in 1..Len(produced) :
             /\ produced[i] \in Range(readings)
             /\ \A s \in MapGet(deviceSubscriptions, produced[i].deviceId) :
                   sockets[s] = "connected" =>
                      Count(delivered[s], ReadingUpdate(produced[i])) >= 1
       /\ response.status = 201

\* The setTimeout that a subscription of socket s has set is pending
Pending(s, name, key) ==
    \E i \in 1..Len(timers) : timers[i] = Timer(s, name, key)

\* Socket s has just received the event of that kind for that key
Confirmed(s, name, key) ==
    \E k \in 1..Len(delivered[s]) :
        /\ delivered[s][k].name = name
        /\ IF name = "room:update" THEN delivered[s][k].room = key
           ELSE delivered[s][k].deviceId = key

(* C28: after a connection has sent 'subscribe', 'subscribe:alerts' or     *)
(* 'join:room', it receives in the end, from the 100 ms callback alone, a  *)
(* 'reading:update' or 'alert:reading' for that device or a 'room:update'  *)
(* for that room, unless it has disconnected.                              *)
C28_SubscriptionIsConfirmed ==
    \A s \in SocketIds :
       /\ Pending(s, "reading:update", GRID_ID)
            ~> (sockets[s] # "connected"
                \/ Confirmed(s, "reading:update", GRID_ID))
       /\ Pending(s, "alert:reading", GRID_ID)
            ~> (sockets[s] # "connected"
                \/ Confirmed(s, "alert:reading", GRID_ID))
       /\ Pending(s, "room:update", LOBBY)
            ~> (sockets[s] # "connected"
                \/ Confirmed(s, "room:update", LOBBY))

\* the callback has sent the alert to a connection that asked for alerts
C28_Witness ==
    \E s \in SocketIds :
        /\ lastOp = Op("timeout", s)
        /\ sockets[s] = "connected"
        /\ s \in MapGet(alertSubscriptions, GRID_ID)
        /\ Confirmed(s, "alert:reading", GRID_ID)

\* Socket s is a member of room r: in the registry, or in the room itself
InRoom(reg, rooms, s, r) == s \in MapGet(reg, r) \/ r \in rooms[s]

C29_State ==
    \A s \in SocketIds : \A k \in 1..Len(delivered[s]) :
        delivered[s][k].name = "room:update" =>
           HistoryOf(s, RoomKey(delivered[s][k].room)) = "joined"

C29_Step ==
    \A s \in SocketIds : \A r \in Rooms :
        LeaveRoom(s, r) =>
           /\ ~InRoom(roomSubscriptions', socketRooms', s, r)
           /\ \A q \in (Rooms \cup SocketIds) \ {r} : \A o \in SocketIds :
                 /\ (o \in MapGet(roomSubscriptions', q))
                       = (o \in MapGet(roomSubscriptions, q))
                 /\ (q \in socketRooms'[o]) = (q \in socketRooms[o])

(* C29: every 'room:update' a connection receives names a room that the    *)
(* connection has joined, and a 'leave:room' takes the connection out of   *)
(* that room and leaves every other room membership as it was.             *)
C29_RoomsAreSeparate == [][C29_Step /\ C29_State']_vars

\* a connection that joined both rooms has left the first and is still in
\* the second
C29_Witness ==
    \E s \in SocketIds :
        /\ lastOp = Op("leave:room", s)
        /\ HistoryOf(s, RoomKey(LOBBY)) = "joined"
        /\ ~InRoom(roomSubscriptions, socketRooms, s, LOBBY)
        /\ s \in MapGet(roomSubscriptions, ANNEX)
        /\ ANNEX \in socketRooms[s]

(* C30: GET /api/readings/:deviceId answers 400 for an id that is not      *)
(* EAGLE-200- and five digits, 404 when the store holds no reading of the  *)
(* id, and otherwise 200 with the stored readings of that device, all of   *)
(* them and no other, in store order.                                      *)
C30_HistoryOfStoredReadings ==
    lastOp.name = "GET /api/readings/:deviceId" =>
       LET d == lastOp.deviceId
           stored == SelectSeq(readings, LAMBDA r : r.deviceId = d)
       IN  IF ~WellFormedId(d) THEN response = [status |-> 400]
           ELSE IF stored = <<>> THEN response = [status |-> 404]
           ELSE response = [status |-> 200, body |-> stored]

\* the history of a device was returned from a store that also holds
\* readings of another device
C30_Witness ==
    /\ lastOp.name = "GET /api/readings/:deviceId"
    /\ response.status = 200
    /\ Len(response.body) >= 2
    /\ Len(response.body) < Len(readings)

\* Number of readings of a sequence that are later than time t
CountLater(seq, t) == Cardinality({j \in 1..Len(seq) : seq[j].timestamp > t})

\* The handlers that call cleanupOldReadings after they push
CleanupOps == {"tick", "POST /api/readings", "reading:new"}

(* C31: when a tick, a POST /api/readings or a 'reading:new' pushes a      *)
(* reading of a device that then holds k > MAX_READINGS_PER_DEVICE         *)
(* readings, its cleanup leaves exactly MAX_READINGS_PER_DEVICE readings   *)
(* of the device, and they are those with the greatest timestamps: for     *)
(* every time t, as many of the kept readings are later than t as of the   *)
(* k readings, up to MAX_READINGS_PER_DEVICE.                              *)
C31_Step ==
    lastOp'.name \in CleanupOps =>
       \A i \in 1..Len(produced') :
          LET d      == produced'[i].deviceId
              before == DeviceReadingsOf(readings \o produced', d)
              after  == DeviceReadingsOf(readings', d)
          IN  Len(before) > MAX_READINGS_PER_DEVICE =>
                 /\ Len(after) = MAX_READINGS_PER_DEVICE
                 /\ \A j \in 1..Len(before) :
                       LET t == before[j].timestamp
                           n == CountLater(before, t)
                       IN  CountLater(after, t) =
                              IF n < MAX_READINGS_PER_DEVICE THEN n
                              ELSE MAX_READINGS_PER_DEVICE

C31_CleanupKeepsTheLatest == [][C31_Step]_vars

\* Some socket was sent the 'reading:update' of reading r in the last step
Emitted(events, r) ==
    \E s \in SocketIds : Count(events[s], ReadingUpdate(r)) >= 1

(* C32, as claimed: a reading whose 'reading:update' a tick, a POST        *)
(* /api/readings or a 'reading:new' has emitted is in the stored history   *)
(* of its device.                                                          *)
C32_EmittedReadingIsStored ==
    lastOp.name \in CleanupOps =>
       \A i \in 1..Len(produced) :
          Emitted(delivered, produced[i]) =>
             produced[i] \in Range(getDeviceReadings(produced[i].deviceId))

(* C32, amended: such a reading was pushed to the store before the emit,   *)
(* and it is in the stored history of its device when it is emitted unless *)
(* the store already held MAX_READINGS_PER_DEVICE readings of the device   *)
(* with later timestamps, so that the cleanup between push and emit has    *)
(* removed it as the oldest.                                               *)
C32_Step ==
    lastOp'.name \in CleanupOps =>
       \A s \in SocketIds : \A k \in 1..Len(delivered'[s]) :
          delivered'[s][k].name = "reading:update" =>
             \E i \in 1..Len(produced') :
                LET r == produced'[i]
                IN  /\ delivered'[s][k] = ReadingUpdate(r)
                    /\ \/ r \in Range(DeviceReadingsOf(readings', r.deviceId))
                       \/ LaterCount(readings, r.deviceId, r.timestamp)
                             >= MAX_READINGS_PER_DEVICE

C32_RecordPrecedesPublish == [][C32_Step]_vars

\* a POST has emitted its reading to the subscriber after a cleanup that
\* removed an older reading and kept the new one
C32_Witness ==
    /\ lastOp.name = "POST /api/readings"
    /\ Len(produced) = 1
    /\ Count(delivered[Sock1], ReadingUpdate(produced[1])) = 1
    /\ produced[1] \in Range(readings)
    /\ Len(getDeviceReadings(GRID_ID)) = MAX_READINGS_PER_DEVICE
    /\ Len(readings) < nextId

(* C33: subscribe and unsubscribe change the reading registry alone,       *)
(* subscribe:status the status registry alone, subscribe:alerts the alert  *)
(* registry alone, and join:room and leave:room the room registry and the  *)
(* socket's rooms alone, also when the room has the name of the device.    *)
C33_Step ==
    /\ lastOp'.name \in {"subscribe", "unsubscribe"} =>
          UNCHANGED <<statusSubscriptions, alertSubscriptions,
                      roomSubscriptions, socketRooms>>
    /\ lastOp'.name = "subscribe:status" =>
          UNCHANGED <<deviceSubscriptions, alertSubscriptions,
                      roomSubscriptions, socketRooms>>
    /\ lastOp'.name = "subscribe:alerts" =>
          UNCHANGED <<deviceSubscriptions, statusSubscriptions,
                      roomSubscriptions, socketRooms>>
    /\ lastOp'.name \in {"join:room", "leave:room"} =>
          UNCHANGED <<deviceSubscriptions, statusSubscriptions,
                      alertSubscriptions>>

C33_TopicSpacesIndependent == [][C33_Step]_vars

\* a connection that is in the reading topic, the status topic, the alert
\* topic and the room of one name has left the room and is in the others
C33_Witness ==
    \E s \in SocketIds :
        /\ lastOp = Op("leave:room", s)
        /\ HistoryOf(s, RoomKey(GRID_ID)) = "joined"
        /\ s \notin MapGet(roomSubscriptions, GRID_ID)
        /\ s \in MapGet(deviceSubscriptions, GRID_ID)
        /\ s \in statusSubscriptions
        /\ s \in MapGet(alertSubscriptions, GRID_ID)

\* The four messages that make a connection a member of a topic
SubscribeOps == {"subscribe", "subscribe:status", "subscribe:alerts",
                 "join:room"}

\* Connection s is open and has sent none of the four messages, or is as if
\* it had sent none: it is in no registry and in no room but its own, and
\* no callback of a subscription of its own is pending
Unsubscribed(reg, rooms, pending, state, s) ==
    /\ state[s] = "connected"
    /\ TopicsOf(reg, s) = NoTopics
    /\ rooms[s] = {s}
    /\ \A k \in 1..Len(pending) : pending[k].socket # s

\* The step is not one of the four messages sent by s
NotSubscribing(s) == ~(lastOp'.name \in SubscribeOps /\ lastOp'.socket = s)

(* C34, as claimed: a connection is in no topic when it opens, and until   *)
(* it sends one of the four messages it stays so and receives no event.    *)
C34_StepNoEvent ==
    \A s \in SocketIds :
       /\ lastOp' = Op("connection", s) =>
             /\ Unsubscribed(Registries', socketRooms', timers', sockets', s)
             /\ delivered'[s] = <<>>
       /\ (Unsubscribed(Registries, socketRooms, timers, sockets, s)
             /\ NotSubscribing(s)) =>
             /\ Unsubscribed(Registries', socketRooms', timers', sockets', s)
             /\ delivered'[s] = <<>>

C34_NoEventBeforeSubscribe == [][C34_StepNoEvent]_vars

(* C34, amended: a connection is in no topic when it opens, and until it   *)
(* sends one of the four messages it stays so and receives no event but    *)
(* the 'unsubscribed' that answers an 'unsubscribe' of its own.            *)
C34_Step ==
    \A s \in SocketIds :
       /\ lastOp' = Op("connection", s) =>
             /\ Unsubscribed(Registries', socketRooms', timers', sockets', s)
             /\ delivered'[s] = <<>>
       /\ (Unsubscribed(Registries, socketRooms, timers, sockets, s)
             /\ NotSubscribing(s)) =>
             /\ Unsubscribed(Registries', socketRooms', timers', sockets', s)
             /\ IF lastOp' = Op("unsubscribe", s)
                THEN \A k \in 1..Len(delivered'[s]) :
                        delivered'[s][k].name = "unsubscribed"
                ELSE delivered'[s] = <<>>

C34_NoImplicitSubscription == [][C34_Step]_vars

\* a tick has told the subscriber of the topic and has told nothing to the
\* connection that has only sent an unsubscribe
C34_Witness ==
    /\ lastOp.name = "tick"
    /\ Unsubscribed(Registries, socketRooms, timers, sockets, Sock1)
    /\ HistoryOf(Sock1, GRID_ID) = "unsubscribed"
    /\ Sock1 \in socketRooms[Sock2]
    /\ delivered[Sock1] = <<>>
    /\ delivered[Sock2] # <<>>

(* C35: in every reachable state the catalog holds the device ids of the   *)
(* start, each exactly once and in its place, whatever bodies PUT          *)
(* /api/devices/:id and updateDevice were given.                           *)
C35_DeviceIdsNeverChange ==
    /\ Len(devices) = Len(InitialDevices)
    /\ \A i \in 1..Len(devices) : devices[i].id = InitialDevices[i].id
    /\ \A i, j \in 1..Len(devices) : devices[i].id = devices[j].id => i = j

\* a PUT whose body carries the id of another device has changed the name
\* of the device it was sent for
C35_Witness ==
    /\ lastOp.name = "PUT /api/devices/:id"
    /\ response.status = 200
    /\ lastOp.fields.id = SOLAR_ID
    /\ lastOp.deviceId = GRID_ID
    /\ devices[DeviceIndex(GRID_ID)].name = lastOp.fields.name
    /\ lastOp.fields.name # "undefined"

\* The values of the status of a device
DeviceStatuses == {"active", "inactive", "maintenance", "error"}

(* C36: in every reachable state the status of every device is one of      *)
(* active, inactive, maintenance and error.                                *)
C36_StatusIsOfTheType ==
    \A i \in 1..Len(devices) : devices[i].status \in DeviceStatuses

Merged(given, old) == IF given # "undefined" THEN given ELSE old

(* C37, amended: 'device:update-status' changes the status of its device   *)
(* and nothing else; PUT /api/devices/:id and updateDevice give their      *)
(* device the name, status, type and location that the body or input       *)
(* carries and leave its other fields, the id among them, as they were; no *)
(* operation changes another device.                                       *)
C37_Step ==
    /\ Len(devices') = Len(devices)
    /\ \A i \in 1..Len(devices) :
          IF /\ lastOp'.name \in {"PUT /api/devices/:id", "updateDevice"}
             /\ lastOp'.deviceId = devices[i].id
          THEN /\ devices'[i].id = devices[i].id
               /\ devices'[i].utilityId = devices[i].utilityId
               /\ devices'[i].name =
                     Merged(lastOp'.fields.name, devices[i].name)
               /\ devices'[i].status =
                     Merged(lastOp'.fields.status, devices[i].status)
               /\ devices'[i].type =
                     Merged(lastOp'.fields.type, devices[i].type)
               /\ devices'[i].location =
                     Merged(lastOp'.fields.location, devices[i].location)
          ELSE IF /\ lastOp'.name = "device:update-status"
                  /\ lastOp'.deviceId = devices[i].id
          THEN devices'[i] = [devices[i] EXCEPT !.status = lastOp'.status]
          ELSE devices'[i] = devices[i]

C38_ReadingIdsDistinct ==
    \A i, j \in 1..Len(readings) : readings[i].id = readings[j].id => i = j

(* C39: a connection leaves the status topic or the alert topic of a       *)
(* device only in the step in which it disconnects; an 'unsubscribe' and a *)
(* 'leave:room' of the connection, also for the same name, leave it in.    *)
C39_Step ==
    \A s \in SocketIds :
       /\ (s \in statusSubscriptions /\ s \notin statusSubscriptions')
             => lastOp' = Op("disconnect", s)
       /\ \A d \in DOMAIN alertSubscriptions :
             (s \in alertSubscriptions[d]
                /\ s \notin MapGet(alertSubscriptions', d))
             => lastOp' = Op("disconnect", s)

C39_StatusAndAlertsUntilDisconnect == [][C39_Step]_vars

\* a member of the reading, status and alert topics of a device has sent
\* unsubscribe for the device: it is out of the reading topic alone
C39_Witness ==
    \E s \in SocketIds :
        /\ lastOp = Op("unsubscribe", s)
        /\ HistoryOf(s, GRID_ID) = "unsubscribed"
        /\ GRID_ID \in DOMAIN deviceSubscriptions
        /\ s \notin MapGet(deviceSubscriptions, GRID_ID)
        /\ s \in statusSubscriptions
        /\ s \in MapGet(alertSubscriptions, GRID_ID)

\* No device of the catalog has the id
NotInCatalog(id) == \A i \in 1..Len(devices) : devices[i].id # id

(* C40: for an id that no device of the catalog has, the device query      *)
(* answers null without an error, and updateDevice answers with the error  *)
(* 'Device not found', leaves the catalog as it was and emits nothing.     *)
C40_Step ==
    /\ (lastOp'.name = "device" /\ NotInCatalog(lastOp'.deviceId))
          => /\ response'.data = << >>
             /\ ~response'.errors
             /\ devices' = devices
    /\ (lastOp'.name = "updateDevice" /\ NotInCatalog(lastOp'.deviceId))
          => /\ response'.errors
             /\ response'.message = "Device not found"
             /\ devices' = devices
             /\ delivered' = NoDelivery

C40_UnknownDeviceNullOrNotFound == [][C40_Step]_vars

\* updateDevice with a status for an unknown id has failed while the status
\* topic has a connected member
C40_Witness ==
    /\ lastOp.name = "updateDevice"
    /\ NotInCatalog(lastOp.deviceId)
    /\ lastOp.status \notin {"undefined", ""}
    /\ response.errors
    /\ Sock1 \in statusSubscriptions
    /\ sockets[Sock1] = "connected"
    /\ delivered = NoDelivery

====
